---- MODULE Spec2Model ----
(***************************************************************************)
(* Model of the OAuth2 login flows of Gmail_TUI.                           *)
(*                                                                         *)
(* Spec: the loopback login (src/internal/auth/loopback.go,                *)
(* LoopbackLogin).  One login attempt is modelled: the calling goroutine walks through      *)
(* LoopbackLogin statement by statement, the goroutine started by          *)
(* `go srv.Serve(ln)` accepts callback requests, and every request runs    *)
(* the /callback handler in its own goroutine (net/http serves each        *)
(* connection in a goroutine of its own).  The two buffered channels       *)
(* codeCh and errCh have capacity 1, a send on a full channel blocks, and  *)
(* a select with several ready cases takes any one of them.                *)
(***************************************************************************)
EXTENDS Naturals, Sequences, FiniteSets

----------------------------------------------------------------------------
(* Bounds and small input sets *)

\* number of callback requests the environment may send in one attempt
MaxReq == 2

\* capacity of codeCh and errCh: make(chan ..., 1)
ChanCap == 1

\* values randState can return
RandStates == {"S1"}

\* ports the OS can assign to 127.0.0.1:0
Ports == {4001, 4002}

\* state parameter of a callback request: the session's, a stale or forged
\* one, or none ("" = parameter absent)
ReqStates == RandStates \cup {"S0", ""}

\* error parameter of a callback request ("" = parameter absent)
ReqErrors == {"", "access_denied"}

\* code parameter of a callback request, as a sequence of characters
\* (<<>> = parameter absent)
ReqCodes == {<<>>, <<" ">>, <<"a">>}

Requests == [state : ReqStates, error : ReqErrors, code : ReqCodes]

\* the RedirectURL of the caller's config before the attempt: the first
\* redirect URI of the credentials file
CallerRedirect == <<"http://localhost", 0, "">>

NoReq == [state |-> "", error |-> "", code |-> <<>>]

\* loopback app: number of keys pressed that Update handles itself
MaxKeys == 2

\* loopback app: length of the text typed into the search input
MaxText == 1

\* token store: the instants a token's expiry is drawn from (seconds)
MaxSec == 2

\* device-flow app: number of l key presses
MaxPress == 2

\* what the device-authorization endpoint answers: a failure, or a device code
\* with the interval the server names (0 = omitted) and a lifetime
ServerIntervals == {0, 1}
ServerLifetime == 2
DeviceResponse(ok, interval) ==
    [ok |-> ok, interval |-> interval, expires_in |-> ServerLifetime]
DeviceResponses ==
    {DeviceResponse(FALSE, 0)} \cup {DeviceResponse(TRUE, i) : i \in ServerIntervals}

\* if out.Interval == 0 { out.Interval = 5 }
DefaultInterval == 5

\* largest poll interval handed to pollDeviceToken, in seconds
MaxInterval == 2

\* largest expires_in handed to pollDeviceToken, in seconds
MaxExpires == 5

\* poll intervals: startDeviceFlow hands out a positive interval
Intervals == 1 .. MaxInterval

\* lifetimes of the device code
Lifetimes == 0 .. MaxExpires

\* seconds a token request can take before its response is read
Latencies == {0, 1}

\* seconds added to the interval on slow_down
SlowDownStep == 2

\* access tokens the token endpoint can issue
AccessTokens == {"tA", "tB"}

\* what http.DefaultClient.Do and io.ReadAll give for a token request:
\* a transport error, or a status and a body; the body is JSON or not, and
\* as JSON has an access_token and an error member ("" = absent)
TokenResponse(neterr, status, json, access, error) ==
    [neterr |-> neterr, status |-> status, json |-> json,
     access_token |-> access, error |-> error]

RespTransportError == TokenResponse(TRUE, 0, FALSE, "", "")
RespOk(t)          == TokenResponse(FALSE, 200, TRUE, t, "")
RespOkEmpty        == TokenResponse(FALSE, 200, TRUE, "", "")
RespOkBadJSON      == TokenResponse(FALSE, 200, FALSE, "", "")
RespPending        == TokenResponse(FALSE, 428, TRUE, "", "authorization_pending")
RespSlowDown       == TokenResponse(FALSE, 403, TRUE, "", "slow_down")
RespDenied         == TokenResponse(FALSE, 403, TRUE, "", "access_denied")
RespOtherError     == TokenResponse(FALSE, 400, TRUE, "", "invalid_grant")
RespNoErrorBody    == TokenResponse(FALSE, 500, FALSE, "", "")

TokenResponses ==
    {RespTransportError, RespOkEmpty, RespOkBadJSON, RespPending,
     RespSlowDown, RespDenied, RespOtherError, RespNoErrorBody}
    \cup {RespOk(t) : t \in AccessTokens}

----------------------------------------------------------------------------
(* Pure helpers *)

IsSpace(c) == c = " "

\* strings.TrimSpace: strip leading and trailing white space
RECURSIVE TrimLeft(_)
TrimLeft(s) ==
    IF s = <<>> THEN <<>>
    ELSE IF IsSpace(Head(s)) THEN TrimLeft(Tail(s)) ELSE s

RECURSIVE TrimRight(_)
TrimRight(s) ==
    IF s = <<>> THEN <<>>
    ELSE IF IsSpace(s[Len(s)]) THEN TrimRight(SubSeq(s, 1, Len(s) - 1)) ELSE s

TrimSpace(s) == TrimRight(TrimLeft(s))

\* fmt.Sprintf("http://127.0.0.1:%d/callback", port)
RedirectFor(p) == <<"http://127.0.0.1", p, "/callback">>

\* errors returned by LoopbackLogin
ErrStateMismatch == <<"oauth state mismatch">>
ErrOAuth(e)      == <<"oauth error", e>>
ErrMissingCode   == <<"missing code">>
ErrTimeout       == <<"login timed out">>
ErrRand          == <<"rand.Read failed">>
ErrListen        == <<"listen failed">>
ErrOpen          == <<"browser start failed">>
ErrExchange      == <<"exchange failed">>
NoErr            == <<>>

\* errors returned by pollDeviceToken
ErrExpired        == <<"device login expired, try again">>
ErrTransport      == <<"http transport error">>
ErrUnmarshal      == <<"json unmarshal error">>
ErrMissingAccess  == <<"token response missing access_token">>
ErrDenied         == <<"access denied in browser">>
ErrTokenError(e)  == <<"token error", e>>
ErrTokenFailed(st) == <<"token request failed", st>>

\* the value of the caller's result: (tok, err)
NoTok == <<>>
TokenFor(code, redirect) == <<"token", code, redirect>>

----------------------------------------------------------------------------
(* State *)

VARIABLES
    pc,          \* position of the goroutine that runs LoopbackLogin
    state,       \* the session state returned by randState ("" before)
    ln,          \* the listener: "none", "open" or "closed"
    port,        \* the port the listener is bound to (0 before)
    cfg,         \* the caller's *oauth2.Config
    cfgCopy,     \* the per-attempt copy of the config
    srvGo,       \* the goroutine of `go srv.Serve(ln)`:
                 \*   "none", "spawned", "accepting" or "returned"
    shutdown,    \* srv.Shutdown: "none", "waiting", "ok" or "deadline"
    authURL,     \* the URL handed to openBrowser (<<>> before)
    browser,     \* "none", "started" or "failed"
    timedOut,    \* the 2 minute context of the select is done
    codeCh,      \* buffered channel of codes
    errCh,       \* buffered channel of errors
    handlers,    \* the /callback handler goroutines, by arrival order
    nReq,        \* number of callback requests accepted so far
    code,        \* the local variable code of LoopbackLogin
    exchanges,   \* the token requests issued by cfgCopy.Exchange
    result,      \* the (tok, err) LoopbackLogin returns
    sendOrder,   \* history: handlers in the order their send completed
    consumed     \* history: the handler whose value the select received (0 = none)

\* the variables of the loopback login
lbVars == <<pc, state, ln, port, cfg, cfgCopy, srvGo, shutdown, authURL, browser,
            timedOut, codeCh, errCh, handlers, nReq, code, exchanges, result,
            sendOrder, consumed>>

\* pollDeviceToken and waitForDeviceTokenCmd
VARIABLES
    ppc,           \* position of the poller: "idle", "check", "await", "sleep",
                   \*   "returned" or "cmdDone"
    now,           \* the wall clock, in seconds since the poller was called
    deadline,      \* the local variable deadline
    intervalSec,   \* the parameter intervalSec, updated on slow_down
    expiresInSec,  \* the parameter expiresInSec
    sleepFor,      \* the duration of the time.Sleep in progress
    pollResult,    \* the (tok, err) pollDeviceToken returns
    saved,         \* the tokens handed to saveToken
    cmdMsg,        \* the message waitForDeviceTokenCmd returns
    startInterval, \* history: intervalSec at the call
    reqTimes,      \* history: the time of every token request
    resps,         \* history: the responses received, in order
    sleeps,        \* history: the durations slept, in order
    waited         \* history: total time spent waiting for responses

pollVars == <<ppc, now, deadline, intervalSec, expiresInSec, sleepFor,
              pollResult, saved, cmdMsg, startInterval, reqTimes, resps,
              sleeps, waited>>

\* the device-flow app (model, Update and its commands)
VARIABLES
    step,            \* m.step: "authIdle", "authNeedLogin", "authWaiting", "authDone"
    mErr,            \* m.err (NoErr = nil)
    verificationURL, \* m.verificationURL (0 = "", k = the one of response k)
    userCode,        \* m.userCode (0 = "", k = the one of response k)
    mCfg,            \* m.cfg: "nil" or "cfg"
    token,           \* m.token (NoTok = nil)
    cmds,            \* the commands that are running
    msgs,            \* the messages the commands returned, not yet in Update
    nCmd,            \* number of commands started so far
    presses,         \* history: number of l key presses
    dcReqs           \* history: the device-authorization requests, in order

devVars == <<step, mErr, verificationURL, userCode, mCfg, token, cmds, msgs,
             nCmd, presses, dcReqs>>

\* TokenStore (Save, Load) and the file token.json
VARIABLES
    spc,       \* position of the caller: "idle", "save", "load" or "done"
    saveTok,   \* the token handed to Save
    file,      \* the content of token.json: <<>> = no file, <<j>> = the text j
    saveErr,   \* what Save returned (NoErr = nil)
    loaded     \* what Load returned: (tok, err)

storeVars == <<spc, saveTok, file, saveErr, loaded>>

\* the loopback app (package app: model, Update and its commands)
VARIABLES
    screen,      \* m.screen
    appErr,      \* m.err (NoErr = nil)
    appCfg,      \* m.cfg: "nil" or "cfg"
    appToken,    \* m.token (NoTok = nil)
    appStore,    \* m.store: "nil" or "store"
    query,       \* m.query
    searchInput, \* m.searchInput.Value()
    detailID,    \* m.detailID (<<>> = none)
    inbox,       \* number of items of m.inbox
    labels,      \* number of items of m.labels
    appCmds,     \* the commands that are running
    appMsgs,     \* the messages the commands returned, not yet in Update
    appNCmd,     \* number of commands started so far
    keys,        \* history: number of keys pressed
    tokenFile,   \* the content of token.json: <<>> = no file, <<t>> = token t
    logins,      \* history: number of calls of auth.LoopbackLogin
    refreshes,   \* history: the tokens the token sources obtained by a refresh
    swallowed,   \* history: the errors a command assigned to _, by command
    quit         \* the key for which Update returned tea.Quit ("" = none)

appVars == <<screen, appErr, appCfg, appToken, appStore, query, searchInput,
             detailID, inbox, labels, appCmds, appMsgs, appNCmd, keys,
             tokenFile, logins, refreshes, swallowed, quit>>

\* Client.ListInbox as a function of its query
VARIABLES
    lspc,      \* position of the caller: "idle", "call" or "done"
    lsQuery,   \* the query handed to ListInbox
    lsCall     \* the messages.list call it made (NoCall = none yet)

listVars == <<lspc, lsQuery, lsCall>>

\* the variables the loopback login leaves alone
nonLbVars == <<pollVars, devVars, storeVars, appVars, listVars>>

\* the variables the poller leaves alone
nonPollVars == <<lbVars, devVars, storeVars, appVars, listVars>>

\* the variables the device-flow app leaves alone
nonDevVars == <<lbVars, pollVars, storeVars, appVars, listVars>>

\* the variables the token store leaves alone
nonStoreVars == <<lbVars, pollVars, devVars, appVars, listVars>>

\* the variables ListInbox leaves alone
nonListVars == <<lbVars, pollVars, devVars, storeVars, appVars>>

\* the variables the loopback app leaves alone
nonAppVars == <<lbVars, pollVars, devVars, storeVars, listVars>>

vars == <<lbVars, pollVars, devVars, storeVars, appVars, listVars>>

callerVars == <<pc, state, ln, port, cfg, cfgCopy, shutdown, authURL, browser,
                code, exchanges, result, consumed>>

HandlerIds == 1 .. MaxReq

IdleHandler == [pc |-> "idle", req |-> NoReq, ch |-> "none", val |-> <<>>, status |-> 0]

NoResult == [tok |-> NoTok, err |-> NoErr, set |-> FALSE]

Returned(tok, err) == [tok |-> tok, err |-> err, set |-> TRUE]

\* LoopbackLogin is called
LbInit ==
    /\ pc = "randState"
    /\ state = ""
    /\ ln = "none"
    /\ port = 0
    /\ cfg = [RedirectURL |-> CallerRedirect]
    /\ cfgCopy = [RedirectURL |-> CallerRedirect]
    /\ srvGo = "none"
    /\ shutdown = "none"
    /\ authURL = <<>>
    /\ browser = "none"
    /\ timedOut = FALSE
    /\ codeCh = <<>>
    /\ errCh = <<>>
    /\ handlers = [h \in HandlerIds |-> IdleHandler]
    /\ nReq = 0
    /\ code = <<>>
    /\ exchanges = <<>>
    /\ result = NoResult
    /\ sendOrder = <<>>
    /\ consumed = 0

\* pollDeviceToken is not running
PollIdle ==
    /\ ppc = "idle"
    /\ now = 0
    /\ deadline = 0
    /\ intervalSec = 0
    /\ expiresInSec = 0
    /\ sleepFor = 0
    /\ pollResult = NoResult
    /\ saved = <<>>
    /\ cmdMsg = <<>>
    /\ startInterval = 0
    /\ reqTimes = <<>>
    /\ resps = <<>>
    /\ sleeps = <<>>
    /\ waited = 0

\* the device-flow app is not running
DevIdle ==
    /\ step = "authIdle"
    /\ mErr = NoErr
    /\ verificationURL = 0
    /\ userCode = 0
    /\ mCfg = "nil"
    /\ token = NoTok
    /\ cmds = {}
    /\ msgs = {}
    /\ nCmd = 0
    /\ presses = 0
    /\ dcReqs = <<>>

\* no TokenStore call is running
StoreIdle ==
    /\ spc = "idle"
    /\ saveTok = NoTok
    /\ file = <<>>
    /\ saveErr = NoErr
    /\ loaded = NoResult

\* the loopback app is not running
AppIdle ==
    /\ screen = "screenAuth"
    /\ appErr = NoErr
    /\ appCfg = "nil"
    /\ appToken = NoTok
    /\ appStore = "nil"
    /\ query = <<>>
    /\ searchInput = <<>>
    /\ detailID = <<>>
    /\ inbox = 0
    /\ labels = 0
    /\ appCmds = {}
    /\ appMsgs = {}
    /\ appNCmd = 0
    /\ keys = 0
    /\ tokenFile = <<>>
    /\ logins = 0
    /\ refreshes = {}
    /\ swallowed = {}
    /\ quit = ""

\* ListInbox has not been called
NoCall == [labelIds |-> {}, q |-> <<>>]
ListIdle ==
    /\ lspc = "idle"
    /\ lsQuery = <<>>
    /\ lsCall = NoCall

Init == LbInit /\ PollIdle /\ DevIdle /\ StoreIdle /\ AppIdle /\ ListIdle

----------------------------------------------------------------------------
(* The /callback handler *)

\* variant: the error parameter is examined before the state
HandleCallback_ErrorFirst(r, st) ==
    IF r.error # ""
    THEN [ch |-> "err", val |-> ErrOAuth(r.error), status |-> 400]
    ELSE IF r.state # st
    THEN [ch |-> "err", val |-> ErrStateMismatch, status |-> 400]
    ELSE IF TrimSpace(r.code) = <<>>
    THEN [ch |-> "err", val |-> ErrMissingCode, status |-> 400]
    ELSE [ch |-> "code", val |-> r.code, status |-> 200]

\* variant: a present code is accepted before the error parameter is examined
HandleCallback_CodeFirst(r, st) ==
    IF r.state # st
    THEN [ch |-> "err", val |-> ErrStateMismatch, status |-> 400]
    ELSE IF TrimSpace(r.code) # <<>>
    THEN [ch |-> "code", val |-> r.code, status |-> 200]
    ELSE IF r.error # ""
    THEN [ch |-> "err", val |-> ErrOAuth(r.error), status |-> 400]
    ELSE [ch |-> "err", val |-> ErrMissingCode, status |-> 400]

\* variant: the state parameter is not compared
HandleCallback_NoStateCheck(r, st) ==
    IF r.error # ""
    THEN [ch |-> "err", val |-> ErrOAuth(r.error), status |-> 400]
    ELSE IF TrimSpace(r.code) = <<>>
    THEN [ch |-> "err", val |-> ErrMissingCode, status |-> 400]
    ELSE [ch |-> "code", val |-> r.code, status |-> 200]

\* variant: the code is not checked for being empty
HandleCallback_NoCodeCheck(r, st) ==
    IF r.state # st
    THEN [ch |-> "err", val |-> ErrStateMismatch, status |-> 400]
    ELSE IF r.error # ""
    THEN [ch |-> "err", val |-> ErrOAuth(r.error), status |-> 400]
    ELSE [ch |-> "code", val |-> r.code, status |-> 200]

\* what the handler answers and sends for request r when the session state
\* is st: the channel it sends on, the value, and the HTTP status
HandleCallback(r, st) ==
    IF r.state # st
    THEN [ch |-> "err", val |-> ErrStateMismatch, status |-> 400]
    ELSE IF r.error # ""
    THEN [ch |-> "err", val |-> ErrOAuth(r.error), status |-> 400]
    ELSE IF TrimSpace(r.code) = <<>>
    THEN [ch |-> "err", val |-> ErrMissingCode, status |-> 400]
    ELSE [ch |-> "code", val |-> r.code, status |-> 200]

\* variant: the URL is built from the caller's config, not from the copy
AuthCodeURL_CallerCfg(c, st) ==
    [redirect_uri |-> cfg.RedirectURL, state |-> st,
     access_type |-> "offline", prompt |-> "consent"]

\* cfgCopy.AuthCodeURL(state, AccessTypeOffline, ApprovalForce)
AuthCodeURL(c, st) ==
    [redirect_uri |-> c.RedirectURL, state |-> st,
     access_type |-> "offline", prompt |-> "consent"]

\* variant: a return that runs no deferred function
ExitAfterDefers_NoDefer == "done"

\* where a return statement placed after both defers goes first: the
\* deferred functions run in reverse order, srv.Shutdown before ln.Close
ExitAfterDefers == "shutdown"

\* a handler that has been started and has not returned
Active(h) == handlers[h].pc = "send"

\* a handler whose send cannot proceed: its channel is full
Blocked(h) ==
    /\ handlers[h].pc = "send"
    /\ \/ handlers[h].ch = "err" /\ Len(errCh) >= ChanCap
       \/ handlers[h].ch = "code" /\ Len(codeCh) >= ChanCap

----------------------------------------------------------------------------
(* The goroutine that runs LoopbackLogin *)

\* state, err := randState()
RandStateOk ==
    /\ pc = "randState"
    /\ \E s \in RandStates : state' = s
    /\ pc' = "listen"
    /\ UNCHANGED <<ln, port, cfg, cfgCopy, srvGo, shutdown, authURL, browser,
                   timedOut, codeCh, errCh, handlers, nReq, code, exchanges,
                   result, sendOrder, consumed>>
    /\ UNCHANGED nonLbVars

\* variant: the error of randState is ignored and the login goes on
RandStateFail_Continues ==
    /\ pc = "randState"
    /\ pc' = "listen"
    /\ UNCHANGED <<state, ln, port, cfg, cfgCopy, srvGo, shutdown, authURL,
                   browser, timedOut, codeCh, errCh, handlers, nReq, code,
                   exchanges, result, sendOrder, consumed>>
    /\ UNCHANGED nonLbVars

RandStateFail ==
    /\ pc = "randState"
    /\ result' = Returned(NoTok, ErrRand)
    /\ pc' = "done"
    /\ UNCHANGED <<state, ln, port, cfg, cfgCopy, srvGo, shutdown, authURL,
                   browser, timedOut, codeCh, errCh, handlers, nReq, code,
                   exchanges, sendOrder, consumed>>
    /\ UNCHANGED nonLbVars

\* ln, err := net.Listen("tcp", "127.0.0.1:0"); defer ln.Close()
ListenOk ==
    /\ pc = "listen"
    /\ ln' = "open"
    /\ \E p \in Ports : port' = p
    /\ pc' = "setup"
    /\ UNCHANGED <<state, cfg, cfgCopy, srvGo, shutdown, authURL, browser,
                   timedOut, codeCh, errCh, handlers, nReq, code, exchanges,
                   result, sendOrder, consumed>>
    /\ UNCHANGED nonLbVars

ListenFail ==
    /\ pc = "listen"
    /\ result' = Returned(NoTok, ErrListen)
    /\ pc' = "done"
    /\ UNCHANGED <<state, ln, port, cfg, cfgCopy, srvGo, shutdown, authURL,
                   browser, timedOut, codeCh, errCh, handlers, nReq, code,
                   exchanges, sendOrder, consumed>>
    /\ UNCHANGED nonLbVars

\* variant: the redirect URI is written into the caller's config
Setup_SharedConfig ==
    /\ pc = "setup"
    /\ cfg' = [cfg EXCEPT !.RedirectURL = RedirectFor(port)]
    /\ cfgCopy' = cfg'
    /\ codeCh' = <<>>
    /\ errCh' = <<>>
    /\ pc' = "serve"
    /\ UNCHANGED <<state, ln, port, srvGo, shutdown, authURL, browser,
                   timedOut, handlers, nReq, code, exchanges, result,
                   sendOrder, consumed>>
    /\ UNCHANGED nonLbVars

\* redirect := Sprintf(..., port); cfgCopy := *cfg; cfgCopy.RedirectURL = redirect;
\* the channels, the mux and the server are created, the handler registered
Setup ==
    /\ pc = "setup"
    /\ cfgCopy' = [cfg EXCEPT !.RedirectURL = RedirectFor(port)]
    /\ codeCh' = <<>>
    /\ errCh' = <<>>
    /\ pc' = "serve"
    /\ UNCHANGED <<state, ln, port, cfg, srvGo, shutdown, authURL, browser,
                   timedOut, handlers, nReq, code, exchanges, result,
                   sendOrder, consumed>>
    /\ UNCHANGED nonLbVars

\* go func() { _ = srv.Serve(ln) }(); defer func() { ... srv.Shutdown(ctx) }()
GoServe ==
    /\ pc = "serve"
    /\ srvGo' = "spawned"
    /\ pc' = "open"
    /\ UNCHANGED <<state, ln, port, cfg, cfgCopy, shutdown, authURL, browser,
                   timedOut, codeCh, errCh, handlers, nReq, code, exchanges,
                   result, sendOrder, consumed>>
    /\ UNCHANGED nonLbVars

\* authURL := cfgCopy.AuthCodeURL(...); openBrowser(authURL) succeeds;
\* ctx, cancel := context.WithTimeout(Background, 2*time.Minute)
OpenBrowserOk ==
    /\ pc = "open"
    /\ authURL' = AuthCodeURL(cfgCopy, state)
    /\ browser' = "started"
    /\ pc' = "select"
    /\ UNCHANGED <<state, ln, port, cfg, cfgCopy, srvGo, shutdown, timedOut,
                   codeCh, errCh, handlers, nReq, code, exchanges, result,
                   sendOrder, consumed>>
    /\ UNCHANGED nonLbVars

\* variant: the error of openBrowser is dropped and the flow goes on to the select
OpenBrowserFail_KeepWaiting ==
    /\ pc = "open"
    /\ authURL' = AuthCodeURL(cfgCopy, state)
    /\ browser' = "failed"
    /\ pc' = "select"
    /\ UNCHANGED <<state, ln, port, cfg, cfgCopy, srvGo, shutdown, timedOut,
                   codeCh, errCh, handlers, nReq, code, exchanges, result,
                   sendOrder, consumed>>
    /\ UNCHANGED nonLbVars

\* openBrowser(authURL) fails: return nil, err
OpenBrowserFail ==
    /\ pc = "open"
    /\ authURL' = AuthCodeURL(cfgCopy, state)
    /\ browser' = "failed"
    /\ result' = Returned(NoTok, ErrOpen)
    /\ pc' = ExitAfterDefers
    /\ UNCHANGED <<state, ln, port, cfg, cfgCopy, srvGo, shutdown, timedOut,
                   codeCh, errCh, handlers, nReq, code, exchanges, sendOrder,
                   consumed>>
    /\ UNCHANGED nonLbVars

\* the timer of the 2 minute context fires
DeadlineFires ==
    /\ pc = "select"
    /\ ~timedOut
    /\ timedOut' = TRUE
    /\ UNCHANGED <<callerVars, srvGo, codeCh, errCh, handlers, nReq, sendOrder>>
    /\ UNCHANGED nonLbVars

\* select: case code = <-codeCh
SelectCode ==
    /\ pc = "select"
    /\ codeCh # <<>>
    /\ code' = Head(codeCh).val
    /\ consumed' = Head(codeCh).from
    /\ codeCh' = Tail(codeCh)
    /\ pc' = "exchange"
    /\ UNCHANGED <<state, ln, port, cfg, cfgCopy, srvGo, shutdown, authURL,
                   browser, timedOut, errCh, handlers, nReq, exchanges, result,
                   sendOrder>>
    /\ UNCHANGED nonLbVars

\* select: case e := <-errCh: return nil, e
SelectErr ==
    /\ pc = "select"
    /\ errCh # <<>>
    /\ result' = Returned(NoTok, Head(errCh).val)
    /\ consumed' = Head(errCh).from
    /\ errCh' = Tail(errCh)
    /\ pc' = ExitAfterDefers
    /\ UNCHANGED <<state, ln, port, cfg, cfgCopy, srvGo, shutdown, authURL,
                   browser, timedOut, codeCh, handlers, nReq, code, exchanges,
                   sendOrder>>
    /\ UNCHANGED nonLbVars

\* variant: the timeout case does not return and falls through to the exchange
SelectTimeout_FallThrough ==
    /\ pc = "select"
    /\ timedOut
    /\ pc' = "exchange"
    /\ UNCHANGED <<state, ln, port, cfg, cfgCopy, srvGo, shutdown, authURL,
                   browser, timedOut, codeCh, errCh, handlers, nReq, code,
                   exchanges, result, sendOrder, consumed>>
    /\ UNCHANGED nonLbVars

\* select: case <-ctx.Done(): return nil, errors.New("login timed out")
SelectTimeout ==
    /\ pc = "select"
    /\ timedOut
    /\ result' = Returned(NoTok, ErrTimeout)
    /\ pc' = ExitAfterDefers
    /\ UNCHANGED <<state, ln, port, cfg, cfgCopy, srvGo, shutdown, authURL,
                   browser, timedOut, codeCh, errCh, handlers, nReq, code,
                   exchanges, sendOrder, consumed>>
    /\ UNCHANGED nonLbVars

\* the token request cfgCopy.Exchange sends for a code
ExchangeRequest(c, cd) == [code |-> cd, redirect_uri |-> c.RedirectURL]

\* tok, err := cfgCopy.Exchange(context.Background(), code) succeeds
ExchangeOk ==
    /\ pc = "exchange"
    /\ exchanges' = Append(exchanges, ExchangeRequest(cfgCopy, code))
    /\ result' = Returned(TokenFor(code, cfgCopy.RedirectURL), NoErr)
    /\ pc' = ExitAfterDefers
    /\ UNCHANGED <<state, ln, port, cfg, cfgCopy, srvGo, shutdown, authURL,
                   browser, timedOut, codeCh, errCh, handlers, nReq, code,
                   sendOrder, consumed>>
    /\ UNCHANGED nonLbVars

\* cfgCopy.Exchange fails: return nil, err
ExchangeFail ==
    /\ pc = "exchange"
    /\ exchanges' = Append(exchanges, ExchangeRequest(cfgCopy, code))
    /\ result' = Returned(NoTok, ErrExchange)
    /\ pc' = ExitAfterDefers
    /\ UNCHANGED <<state, ln, port, cfg, cfgCopy, srvGo, shutdown, authURL,
                   browser, timedOut, codeCh, errCh, handlers, nReq, code,
                   sendOrder, consumed>>
    /\ UNCHANGED nonLbVars

\* deferred: srv.Shutdown(ctx) is called; it closes the listeners the
\* server tracks and then waits for the active connections
ShutdownBegin ==
    /\ pc = "shutdown"
    /\ shutdown' = "waiting"
    /\ ln' = IF srvGo = "accepting" THEN "closed" ELSE ln
    /\ srvGo' = IF srvGo = "accepting" THEN "returned" ELSE srvGo
    /\ pc' = "shutdownWait"
    /\ UNCHANGED <<state, port, cfg, cfgCopy, authURL, browser, timedOut,
                   codeCh, errCh, handlers, nReq, code, exchanges, result,
                   sendOrder, consumed>>
    /\ UNCHANGED nonLbVars

\* srv.Shutdown returns nil: no connection is active
ShutdownGraceful ==
    /\ pc = "shutdownWait"
    /\ \A h \in HandlerIds : ~Active(h)
    /\ shutdown' = "ok"
    /\ pc' = "close"
    /\ UNCHANGED <<state, ln, port, cfg, cfgCopy, srvGo, authURL, browser,
                   timedOut, codeCh, errCh, handlers, nReq, code, exchanges,
                   result, sendOrder, consumed>>
    /\ UNCHANGED nonLbVars

\* srv.Shutdown returns ctx.Err() after 2 seconds: a handler is still running
ShutdownDeadline ==
    /\ pc = "shutdownWait"
    /\ \E h \in HandlerIds : Active(h)
    /\ shutdown' = "deadline"
    /\ pc' = "close"
    /\ UNCHANGED <<state, ln, port, cfg, cfgCopy, srvGo, authURL, browser,
                   timedOut, codeCh, errCh, handlers, nReq, code, exchanges,
                   result, sendOrder, consumed>>
    /\ UNCHANGED nonLbVars

\* deferred: ln.Close(); LoopbackLogin returns
CloseListener ==
    /\ pc = "close"
    /\ ln' = "closed"
    /\ pc' = "done"
    /\ UNCHANGED <<state, port, cfg, cfgCopy, srvGo, shutdown, authURL,
                   browser, timedOut, codeCh, errCh, handlers, nReq, code,
                   exchanges, result, sendOrder, consumed>>
    /\ UNCHANGED nonLbVars

----------------------------------------------------------------------------
(* The server goroutine and the handlers *)

\* the goroutine of srv.Serve(ln) starts running: it accepts connections,
\* or returns ErrServerClosed when Shutdown was called first
ServeStart ==
    /\ srvGo = "spawned"
    /\ srvGo' = IF shutdown = "none" THEN "accepting" ELSE "returned"
    /\ UNCHANGED <<callerVars, timedOut, codeCh, errCh, handlers, nReq,
                   sendOrder>>
    /\ UNCHANGED nonLbVars

\* a request for /callback is accepted and its handler runs up to the send.
\* The session state is known outside the process only through the URL
\* given to the browser.
Receive ==
    /\ srvGo = "accepting"
    /\ ln = "open"
    /\ nReq < MaxReq
    /\ \E r \in Requests :
        /\ r.state = state => browser = "started"
        /\ LET out == HandleCallback(r, state) IN
           handlers' = [handlers EXCEPT ![nReq + 1] =
                           [pc |-> "send", req |-> r, ch |-> out.ch,
                            val |-> out.val, status |-> out.status]]
    /\ nReq' = nReq + 1
    /\ UNCHANGED <<callerVars, srvGo, timedOut, codeCh, errCh, sendOrder>>
    /\ UNCHANGED nonLbVars

\* errCh <- err, or codeCh <- code: proceeds when the buffer has room
Send ==
    \E h \in HandlerIds :
        /\ handlers[h].pc = "send"
        /\ ~Blocked(h)
        /\ IF handlers[h].ch = "err"
           THEN /\ errCh' = Append(errCh, [from |-> h, val |-> handlers[h].val])
                /\ UNCHANGED codeCh
           ELSE /\ codeCh' = Append(codeCh, [from |-> h, val |-> handlers[h].val])
                /\ UNCHANGED errCh
        /\ handlers' = [handlers EXCEPT ![h].pc = "done"]
        /\ sendOrder' = Append(sendOrder, h)
        /\ UNCHANGED <<callerVars, srvGo, timedOut, nReq>>
        /\ UNCHANGED nonLbVars

----------------------------------------------------------------------------

Next ==
    \/ RandStateOk
    \/ RandStateFail
    \/ ListenOk
    \/ ListenFail
    \/ Setup
    \/ GoServe
    \/ OpenBrowserOk
    \/ OpenBrowserFail
    \/ DeadlineFires
    \/ SelectCode
    \/ SelectErr
    \/ SelectTimeout
    \/ ExchangeOk
    \/ ExchangeFail
    \/ ShutdownBegin
    \/ ShutdownGraceful
    \/ ShutdownDeadline
    \/ CloseListener
    \/ ServeStart
    \/ Receive
    \/ Send

Spec == Init /\ [][Next]_vars

----------------------------------------------------------------------------
(* Properties of LoopbackLogin *)

\* the caller has left the body of LoopbackLogin through a return placed
\* after the defers, or has returned
TearingDown == pc \in {"shutdown", "shutdownWait", "close", "done"}

\* the listener was bound in this run
WasBound == port # 0

\* handler h has been started for a request
Started(h) == handlers[h].pc # "idle"

\* C1: whenever LoopbackLogin has returned in a run in which the listener
\* was bound, the listener is closed and srv.Shutdown has been called and
\* has returned, whatever the exit path; with no callback received the
\* shutdown can return at once and returns without running into its deadline.
C1_TeardownOnEveryExit ==
    /\ (pc = "done" /\ WasBound) =>
          /\ ln = "closed"
          /\ shutdown \in {"ok", "deadline"}
          /\ nReq = 0 => shutdown = "ok"
    /\ (pc = "shutdownWait" /\ nReq = 0) => ENABLED ShutdownGraceful
    /\ (result.set /\ WasBound /\ srvGo # "none") => TearingDown

\* C1 witness: the login timed out with no callback and has been torn down
C1_Witness ==
    /\ pc = "done"
    /\ result.err = ErrTimeout
    /\ nReq = 0
    /\ ln = "closed"
    /\ shutdown = "ok"

\* C2 (as claimed): no callback handler is ever blocked on the send of its
\* result, for any sequence of callbacks
C2_NoHandlerBlocks == \A h \in HandlerIds : ~Blocked(h)

\* C3 (as claimed): the value the select of the caller receives is the value
\* of the first callback whose result was delivered
C3_FirstCallbackWins == consumed # 0 => consumed = Head(sendOrder)

\* C4: a callback whose state differs from the session state is answered
\* with the state mismatch error whatever its code and error parameters
\* are, and a login that receives the result of such a callback returns the
\* state mismatch error straight away: it does not go on waiting and issues
\* no token request.
C4_StateMismatch ==
    /\ \A h \in HandlerIds :
          (Started(h) /\ handlers[h].req.state # state) =>
              /\ handlers[h].ch = "err"
              /\ handlers[h].val = ErrStateMismatch
    /\ (consumed # 0 /\ handlers[consumed].req.state # state) =>
          /\ result = Returned(NoTok, ErrStateMismatch)
          /\ TearingDown
          /\ exchanges = <<>>

\* C4 witness: the login returned the state mismatch error for a callback
\* that had a wrong state, an error parameter and a code
C4_Witness ==
    /\ pc = "done"
    /\ consumed # 0
    /\ handlers[consumed].req.state # state
    /\ handlers[consumed].req.code = <<"a">>
    /\ handlers[consumed].req.error = "access_denied"
    /\ result.err = ErrStateMismatch

\* C5 (as claimed): a login that receives the result of a callback carrying
\* error=access_denied returns the authorization-denied error carrying
\* "access_denied" and issues no token request
C5_DeniedAnyState ==
    (consumed # 0 /\ handlers[consumed].req.error = "access_denied") =>
        /\ result = Returned(NoTok, ErrOAuth("access_denied"))
        /\ exchanges = <<>>

\* C5 (amended): a callback carrying error=access_denied and the state of
\* the session is answered with the authorization-denied error carrying
\* "access_denied", whether or not it also carries a code; a login that
\* receives the result of such a callback returns that error and issues no
\* token request.
C5_DeniedMatchingState ==
    /\ \A h \in HandlerIds :
          (/\ Started(h)
           /\ handlers[h].req.state = state
           /\ handlers[h].req.error = "access_denied") =>
              /\ handlers[h].ch = "err"
              /\ handlers[h].val = ErrOAuth("access_denied")
    /\ (/\ consumed # 0
        /\ handlers[consumed].req.state = state
        /\ handlers[consumed].req.error = "access_denied") =>
          /\ result = Returned(NoTok, ErrOAuth("access_denied"))
          /\ TearingDown
          /\ exchanges = <<>>

\* C5 witness: the login returned the denial of a callback that carried the
\* session state, error=access_denied and a code
C5_Witness ==
    /\ pc = "done"
    /\ consumed # 0
    /\ handlers[consumed].req.state = state
    /\ handlers[consumed].req.error = "access_denied"
    /\ handlers[consumed].req.code = <<"a">>
    /\ result.err = ErrOAuth("access_denied")

\* the request of handler h is a valid callback: the state of the session,
\* no error parameter, a code that is not blank
ValidCallback(h) ==
    /\ Started(h)
    /\ handlers[h].req.state = state
    /\ handlers[h].req.error = ""
    /\ TrimSpace(handlers[h].req.code) # <<>>

\* the errors of the runs that end without a valid callback
NoExchangeErrors ==
    {ErrStateMismatch, ErrOAuth("access_denied"), ErrMissingCode, ErrTimeout,
     ErrOpen, ErrRand, ErrListen}

\* C6: a token request is issued (and the exchange is entered) only with the
\* code of a valid callback that the select received, at most once per run;
\* a run that ends with the state mismatch, provider error, missing code,
\* timeout or browser error has issued no token request.
C6_ExchangeOnlyValidCode ==
    /\ Len(exchanges) <= 1
    /\ (pc = "exchange" \/ exchanges # <<>>) =>
          /\ consumed # 0
          /\ ValidCallback(consumed)
          /\ code = handlers[consumed].req.code
    /\ \A i \in 1 .. Len(exchanges) :
          exchanges[i].code = handlers[consumed].req.code
    /\ (result.set /\ result.err \in NoExchangeErrors) => exchanges = <<>>

\* C6 witness: the login returned after a token request for the code of a
\* valid callback
C6_Witness ==
    /\ pc = "done"
    /\ Len(exchanges) = 1
    /\ ValidCallback(consumed)
    /\ exchanges[1].code = <<"a">>

\* C7: a callback with the state of the session, no error parameter and an
\* absent or blank code is answered with the missing code error, and a login
\* that receives the result of such a callback returns that error and issues
\* no token request.
C7_MissingCode ==
    /\ \A h \in HandlerIds :
          (/\ Started(h)
           /\ handlers[h].req.state = state
           /\ handlers[h].req.error = ""
           /\ TrimSpace(handlers[h].req.code) = <<>>) =>
              /\ handlers[h].ch = "err"
              /\ handlers[h].val = ErrMissingCode
    /\ (/\ consumed # 0
        /\ handlers[consumed].req.state = state
        /\ handlers[consumed].req.error = ""
        /\ TrimSpace(handlers[consumed].req.code) = <<>>) =>
          /\ result = Returned(NoTok, ErrMissingCode)
          /\ TearingDown
          /\ exchanges = <<>>

\* C7 witness: the login returned the missing code error for a callback with
\* the session state and neither error nor code
C7_Witness ==
    /\ pc = "done"
    /\ consumed # 0
    /\ handlers[consumed].req = [state |-> state, error |-> "", code |-> <<>>]
    /\ result.err = ErrMissingCode

\* C8: when the select runs with the deadline elapsed and both channels
\* empty, the login returns the timeout error; and a login whose result is
\* the timeout error has received no callback and issued no token request.
C8_Timeout ==
    /\ [][(/\ pc = "select"
           /\ timedOut
           /\ codeCh = <<>>
           /\ errCh = <<>>
           /\ pc' # "select") =>
              /\ result' = Returned(NoTok, ErrTimeout)
              /\ pc' = "shutdown"
              /\ exchanges' = <<>>]_vars
    /\ [](TearingDown /\ timedOut /\ consumed = 0 =>
              /\ result = Returned(NoTok, ErrTimeout)
              /\ exchanges = <<>>)
    /\ [](result.err = ErrTimeout =>
              /\ timedOut
              /\ consumed = 0
              /\ exchanges = <<>>)

\* C8 witness: the login returned the timeout error with no callback received
C8_Witness ==
    /\ pc = "done"
    /\ timedOut
    /\ consumed = 0
    /\ result.err = ErrTimeout
    /\ exchanges = <<>>

\* C9: at the step that hands the URL to the browser the listener is bound
\* and open, the redirect URI of the attempt is the one built from the bound
\* port, the server goroutine has been started on the listener, and the URL
\* embeds that redirect URI and the session state.
C9_BrowserAfterBind ==
    [][(browser = "none" /\ browser' # "none") =>
          /\ ln = "open"
          /\ port \in Ports
          /\ cfgCopy.RedirectURL = RedirectFor(port)
          /\ srvGo # "none"
          /\ state \in RandStates
          /\ authURL'.redirect_uri = RedirectFor(port)
          /\ authURL'.state = state]_vars

\* C9 witness: the browser was started with the URL of the bound port
C9_Witness ==
    /\ browser = "started"
    /\ port = 4002
    /\ authURL.redirect_uri = RedirectFor(4002)
    /\ authURL.state = "S1"

C24_EarlyFailuresStartNothing ==
    /\ [][(pc = "randState" /\ pc' # pc /\ state' = "") =>
            /\ pc' = "done"
            /\ result' = Returned(NoTok, ErrRand)]_vars
    /\ [][(pc = "listen" /\ pc' # pc /\ ln' = "none") =>
            /\ pc' = "done"
            /\ result' = Returned(NoTok, ErrListen)]_vars
    /\ [](state = "" => ln = "none" /\ port = 0)
    /\ [](ln = "none" =>
            /\ browser = "none"
            /\ authURL = <<>>
            /\ srvGo = "none"
            /\ nReq = 0
            /\ exchanges = <<>>
            /\ shutdown = "none")

C24_Witness ==
    /\ pc = "done"
    /\ result = Returned(NoTok, ErrListen)
    /\ state \in RandStates
    /\ ln = "none"
    /\ browser = "none"

\* C28: every exchange carries the redirect URI that was put into the
\* authorization URL of this login (the one of the bound port), and the
\* caller's config keeps the redirect URI it had at the call.
C28_RedirectOnCopyOnly ==
    /\ cfg.RedirectURL = CallerRedirect
    /\ \A i \in 1 .. Len(exchanges) :
          /\ browser = "started"
          /\ exchanges[i].redirect_uri = authURL.redirect_uri
          /\ exchanges[i].redirect_uri = RedirectFor(port)

C28_Witness ==
    /\ pc = "done"
    /\ port = 4001
    /\ cfg.RedirectURL = CallerRedirect
    /\ Len(exchanges) = 1
    /\ exchanges[1].redirect_uri = RedirectFor(4001)
    /\ authURL.redirect_uri = RedirectFor(4001)
    /\ result.err = NoErr

----------------------------------------------------------------------------
(* Termination of LoopbackLogin *)

\* the steps the Go scheduler and the timers take on their own: every
\* statement of the caller, the timer of the select, the server goroutine
\* and the sends of the handlers.  The answer of the token endpoint
\* (ExchangeOk, ExchangeFail) and the arrival of a callback (Receive) are
\* up to the network: cfgCopy.Exchange is called with context.Background()
\* and nothing bounds the time it waits.
LbProgress ==
    \/ RandStateOk
    \/ RandStateFail
    \/ ListenOk
    \/ ListenFail
    \/ Setup
    \/ GoServe
    \/ OpenBrowserOk
    \/ OpenBrowserFail
    \/ DeadlineFires
    \/ SelectCode
    \/ SelectErr
    \/ SelectTimeout
    \/ ShutdownBegin
    \/ ShutdownGraceful
    \/ ShutdownDeadline
    \/ CloseListener
    \/ ServeStart
    \/ Send

LiveSpec == Init /\ [][Next]_vars /\ WF_vars(LbProgress)

\* C11 (as claimed): every invocation of LoopbackLogin eventually returns,
\* also when no callback arrives and when the token endpoint never answers
C11_EventuallyReturns == <>(pc = "done")

\* every invocation of LoopbackLogin returns or reaches the token exchange:
\* the wait for the callback is bounded by the 2 minute context
LbReturnsOrExchanges == <>(pc \in {"done", "exchange"})

----------------------------------------------------------------------------
(* pollDeviceToken and waitForDeviceTokenCmd (device flow) *)

\* deadline := time.Now().Add(expiresInSec seconds), with the clock at 0
PollInit ==
    /\ LbInit
    /\ ppc = "check"
    /\ now = 0
    /\ \E i \in Intervals : intervalSec = i /\ startInterval = i
    /\ \E e \in Lifetimes : expiresInSec = e /\ deadline = e
    /\ sleepFor = 0
    /\ pollResult = NoResult
    /\ saved = <<>>
    /\ cmdMsg = <<>>
    /\ reqTimes = <<>>
    /\ resps = <<>>
    /\ sleeps = <<>>
    /\ waited = 0
    /\ DevIdle
    /\ StoreIdle
    /\ AppIdle
    /\ ListIdle

\* variant: the deadline is compared one second late
DeadlinePassed_Late(t, d) == t > d + 1

\* variant: the loop gives up only a whole lifetime after the deadline
DeadlinePassed_Twice(t, d) == t > d + d

\* time.Now().After(deadline)
DeadlinePassed(t, d) == t > d

\* the two ways an iteration ends: return (tok, err), or sleep and continue
\* with a new interval
PollReturn(tok, err, iv) ==
    [retry |-> FALSE, interval |-> iv, sleep |-> 0, tok |-> tok, err |-> err]

PollRetry(newIv, sleepIv) ==
    [retry |-> TRUE, interval |-> newIv, sleep |-> sleepIv,
     tok |-> NoTok, err |-> NoErr]

\* variant: an empty access token is accepted
PollSuccessCase_NoEmptyCheck(r, iv) ==
    IF ~r.json
    THEN PollReturn(NoTok, ErrUnmarshal, iv)
    ELSE PollReturn([AccessToken |-> r.access_token], NoErr, iv)

\* if resp.StatusCode == 200 { ... }
PollSuccessCase(r, iv) ==
    IF ~r.json
    THEN PollReturn(NoTok, ErrUnmarshal, iv)
    ELSE IF r.access_token = ""
    THEN PollReturn(NoTok, ErrMissingAccess, iv)
    ELSE PollReturn([AccessToken |-> r.access_token], NoErr, iv)

\* _ = json.Unmarshal(b, &te): te.Error stays "" when the body is not JSON
TokenErrCode(r) == IF r.json THEN r.error ELSE ""

\* variant: slow_down leaves the interval as it is
PollErrorCase_SlowDownKeepsInterval(r, iv) ==
    LET e == TokenErrCode(r) IN
    IF e = "authorization_pending" THEN PollRetry(iv, iv)
    ELSE IF e = "slow_down" THEN PollRetry(iv, iv)
    ELSE IF e = "access_denied" THEN PollReturn(NoTok, ErrDenied, iv)
    ELSE IF e # "" THEN PollReturn(NoTok, ErrTokenError(e), iv)
    ELSE PollReturn(NoTok, ErrTokenFailed(r.status), iv)

\* variant: access_denied is polled again like authorization_pending
PollErrorCase_DeniedRetries(r, iv) ==
    LET e == TokenErrCode(r) IN
    IF e = "authorization_pending" THEN PollRetry(iv, iv)
    ELSE IF e = "slow_down" THEN PollRetry(iv + SlowDownStep, iv + SlowDownStep)
    ELSE IF e = "access_denied" THEN PollRetry(iv, iv)
    ELSE IF e # "" THEN PollReturn(NoTok, ErrTokenError(e), iv)
    ELSE PollReturn(NoTok, ErrTokenFailed(r.status), iv)

\* variant: on slow_down the sleep comes before the increase
PollErrorCase_SleepBeforeIncrease(r, iv) ==
    LET e == TokenErrCode(r) IN
    IF e = "authorization_pending" THEN PollRetry(iv, iv)
    ELSE IF e = "slow_down" THEN PollRetry(iv + SlowDownStep, iv)
    ELSE IF e = "access_denied" THEN PollReturn(NoTok, ErrDenied, iv)
    ELSE IF e # "" THEN PollReturn(NoTok, ErrTokenError(e), iv)
    ELSE PollReturn(NoTok, ErrTokenFailed(r.status), iv)

\* variant: a response without an error code is polled again
PollErrorCase_UnknownRetries(r, iv) ==
    LET e == TokenErrCode(r) IN
    IF e = "authorization_pending" THEN PollRetry(iv, iv)
    ELSE IF e = "slow_down" THEN PollRetry(iv + SlowDownStep, iv + SlowDownStep)
    ELSE IF e = "access_denied" THEN PollReturn(NoTok, ErrDenied, iv)
    ELSE IF e # "" THEN PollReturn(NoTok, ErrTokenError(e), iv)
    ELSE PollRetry(iv, iv)

\* switch te.Error { ... }
PollErrorCase(r, iv) ==
    LET e == TokenErrCode(r) IN
    IF e = "authorization_pending" THEN PollRetry(iv, iv)
    ELSE IF e = "slow_down" THEN PollRetry(iv + SlowDownStep, iv + SlowDownStep)
    ELSE IF e = "access_denied" THEN PollReturn(NoTok, ErrDenied, iv)
    ELSE IF e # "" THEN PollReturn(NoTok, ErrTokenError(e), iv)
    ELSE PollReturn(NoTok, ErrTokenFailed(r.status), iv)

\* the body of the loop after the request: what pollDeviceToken does with
\* response r when the interval is iv
PollOutcome(r, iv) ==
    IF r.neterr THEN PollReturn(NoTok, ErrTransport, iv)
    ELSE IF r.status = 200 THEN PollSuccessCase(r, iv)
    ELSE PollErrorCase(r, iv)

\* top of the loop, deadline passed: return nil, "device login expired"
PollExpired ==
    /\ ppc = "check"
    /\ DeadlinePassed(now, deadline)
    /\ pollResult' = Returned(NoTok, ErrExpired)
    /\ ppc' = "returned"
    /\ UNCHANGED <<now, deadline, intervalSec, expiresInSec, sleepFor, saved,
                   cmdMsg, startInterval, reqTimes, resps, sleeps, waited>>
    /\ UNCHANGED nonPollVars

\* top of the loop, deadline not passed: the token request is sent
PollRequest ==
    /\ ppc = "check"
    /\ ~DeadlinePassed(now, deadline)
    /\ reqTimes' = Append(reqTimes, now)
    /\ ppc' = "await"
    /\ UNCHANGED <<now, deadline, intervalSec, expiresInSec, sleepFor,
                   pollResult, saved, cmdMsg, startInterval, resps, sleeps,
                   waited>>
    /\ UNCHANGED nonPollVars

\* the response (or the transport error) arrives and is classified
PollResponse ==
    /\ ppc = "await"
    /\ \E r \in TokenResponses, d \in Latencies :
        LET out == PollOutcome(r, intervalSec) IN
        /\ now' = now + d
        /\ waited' = waited + d
        /\ resps' = Append(resps, r)
        /\ intervalSec' = out.interval
        /\ sleepFor' = out.sleep
        /\ IF out.retry
           THEN /\ ppc' = "sleep"
                /\ UNCHANGED pollResult
           ELSE /\ ppc' = "returned"
                /\ pollResult' = Returned(out.tok, out.err)
    /\ UNCHANGED <<deadline, expiresInSec, saved, cmdMsg, startInterval,
                   reqTimes, sleeps>>
    /\ UNCHANGED nonPollVars

\* variant: the loop continues without sleeping
PollSleep_Skipped ==
    /\ ppc = "sleep"
    /\ ppc' = "check"
    /\ UNCHANGED <<now, deadline, intervalSec, expiresInSec, sleepFor, pollResult,
                   saved, cmdMsg, startInterval, reqTimes, resps, sleeps, waited>>
    /\ UNCHANGED nonPollVars

\* time.Sleep(intervalSec seconds); continue
PollSleep ==
    /\ ppc = "sleep"
    /\ now' = now + sleepFor
    /\ sleeps' = Append(sleeps, sleepFor)
    /\ ppc' = "check"
    /\ UNCHANGED <<deadline, intervalSec, expiresInSec, sleepFor, pollResult,
                   saved, cmdMsg, startInterval, reqTimes, resps, waited>>
    /\ UNCHANGED nonPollVars

\* messages of the device-flow app
InboxErrMsg(e) == <<"inboxMsg", e>>
TokenMsg(t)    == <<"tokenMsg", t>>

\* waitForDeviceTokenCmd after pollDeviceToken returned: an error becomes
\* inboxMsg{err}; a token is saved and becomes tokenMsg{tok}
CmdReturn ==
    /\ ppc = "returned"
    /\ IF pollResult.err # NoErr
       THEN /\ cmdMsg' = InboxErrMsg(pollResult.err)
            /\ UNCHANGED saved
       ELSE /\ saved' = Append(saved, pollResult.tok)
            /\ cmdMsg' = TokenMsg(pollResult.tok)
    /\ ppc' = "cmdDone"
    /\ UNCHANGED <<now, deadline, intervalSec, expiresInSec, sleepFor,
                   pollResult, startInterval, reqTimes, resps, sleeps, waited>>
    /\ UNCHANGED nonPollVars

PollNext ==
    \/ PollExpired
    \/ PollRequest
    \/ PollResponse
    \/ PollSleep
    \/ CmdReturn

PollSpec == PollInit /\ [][PollNext]_vars


\* fair poller: every step the loop can take is eventually taken; the request
\* itself ends because its context expires 30 s after the device code does
PollLiveSpec == PollInit /\ [][PollNext]_vars /\ WF_vars(PollNext)

----------------------------------------------------------------------------
\* Properties of pollDeviceToken

PollReturned == ppc \in {"returned", "cmdDone"}

Retryable == {RespPending, RespSlowDown}

\* C13: for the responses [authorization_pending, authorization_pending,
\* slow_down, success] the poller issues exactly four requests, raises the
\* interval exactly once (before the third sleep) and returns the token of the
\* fourth response.
C13_PendingPendingSlowDownSuccess ==
    \A t \in AccessTokens :
        resps = <<RespPending, RespPending, RespSlowDown, RespOk(t)>> =>
            /\ PollReturned
            /\ Len(reqTimes) = 4
            /\ sleeps = <<startInterval, startInterval,
                          startInterval + SlowDownStep>>
            /\ intervalSec = startInterval + SlowDownStep
            /\ pollResult = Returned([AccessToken |-> t], NoErr)

C13_Witness ==
    /\ ppc = "cmdDone"
    /\ resps = <<RespPending, RespPending, RespSlowDown, RespOk("tB")>>
    /\ Len(reqTimes) = 4
    /\ pollResult.tok = [AccessToken |-> "tB"]

\* C14: access_denied ends the polling: the response that carries it is the
\* last one, no request follows it, and the poller returns the access-denied
\* error; when it is the first response exactly one request was made.
C14_AccessDeniedTerminal ==
    \A k \in 1 .. Len(resps) :
        resps[k] = RespDenied =>
            /\ k = Len(resps)
            /\ Len(reqTimes) = k
            /\ PollReturned
            /\ pollResult = Returned(NoTok, ErrDenied)

C14_Witness ==
    /\ ppc = "cmdDone"
    /\ resps = <<RespDenied>>
    /\ Len(reqTimes) = 1
    /\ cmdMsg = InboxErrMsg(ErrDenied)

\* C15: a poller that only ever sees authorization_pending or slow_down
\* returns, and returns the expired error; its running time exceeds the device
\* code's lifetime by at most one (current) interval plus the time spent
\* waiting for responses, so with a lifetime of two intervals and immediate
\* authorization_pending answers it is over within lifetime + one interval.
OnlyIn(S) == \A k \in 1 .. Len(resps) : resps[k] \in S

C15_ExpiresWhenNeverApproved ==
    /\ <>PollReturned
    /\ [](PollReturned /\ OnlyIn(Retryable) =>
            /\ pollResult = Returned(NoTok, ErrExpired)
            /\ now <= expiresInSec + intervalSec + waited)
    /\ [](PollReturned /\ OnlyIn({RespPending}) =>
            now <= expiresInSec + startInterval + waited)

\* C15 (as claimed, the interval being the one the poller was started with):
\* with a lifetime of two intervals, immediate answers and only
\* authorization_pending or slow_down responses, the poller is over within
\* lifetime + one interval.
C15_WithinOneInitialInterval ==
    (/\ PollReturned
     /\ OnlyIn(Retryable)
     /\ expiresInSec = 2 * startInterval
     /\ waited = 0) => now <= expiresInSec + startInterval

C15_Witness ==
    /\ PollReturned
    /\ expiresInSec = 2 * startInterval
    /\ resps = <<RespPending, RespPending, RespPending>>
    /\ waited = 0
    /\ now = expiresInSec + startInterval
    /\ pollResult = Returned(NoTok, ErrExpired)

\* C16: the deadline is tested at the top of every iteration, before the
\* request: no request is issued after the deadline, and an iteration that
\* starts after the deadline returns the expired error without a request,
\* whatever was answered before.
C16_NoRequestAfterDeadline ==
    /\ [](\A i \in 1 .. Len(reqTimes) : reqTimes[i] <= deadline)
    /\ [][ppc = "check" /\ now > deadline =>
            /\ ppc' = "returned"
            /\ pollResult' = Returned(NoTok, ErrExpired)
            /\ reqTimes' = reqTimes]_vars

C16_Witness ==
    /\ PollReturned
    /\ pollResult = Returned(NoTok, ErrExpired)
    /\ Len(reqTimes) = 2
    /\ reqTimes[2] = deadline
    /\ resps[2] = RespSlowDown

\* C17: the interval never decreases; slow_down raises it and the sleep that
\* follows already lasts the raised interval; authorization_pending leaves it
\* unchanged.
C17_IntervalMonotone ==
    /\ [][intervalSec' >= intervalSec]_vars
    /\ [][resps' # resps =>
            LET r == resps'[Len(resps')] IN
            /\ r = RespSlowDown =>
                 /\ intervalSec' > intervalSec
                 /\ ppc' = "sleep"
                 /\ sleepFor' = intervalSec'
            /\ r = RespPending =>
                 /\ intervalSec' = intervalSec
                 /\ ppc' = "sleep"
                 /\ sleepFor' = intervalSec]_vars
    /\ [][ppc = "sleep" /\ ppc' = "check" => now' = now + intervalSec]_vars

C17_Witness ==
    /\ ppc = "check"
    /\ resps = <<RespSlowDown, RespPending>>
    /\ sleeps = <<startInterval + SlowDownStep, startInterval + SlowDownStep>>
    /\ intervalSec = startInterval + SlowDownStep

\* C18: only authorization_pending and slow_down are followed by another
\* request; any other response (success, access_denied, another error code, a
\* body without one, a transport failure) is the last one and the poller has
\* returned.
C18_OnlyRetryableContinues ==
    /\ Len(reqTimes) <= Len(resps) + 1
    /\ \A k \in 1 .. Len(resps) :
          resps[k] \notin Retryable =>
              /\ k = Len(resps)
              /\ Len(reqTimes) = k
              /\ PollReturned
              /\ pollResult.set

C18_Witness ==
    /\ PollReturned
    /\ resps = <<RespPending, RespNoErrorBody>>
    /\ Len(reqTimes) = 2
    /\ pollResult = Returned(NoTok, ErrTokenFailed(500))

\* C19: a 200 response whose access token is empty is a failure: the poller
\* returns the missing-access_token error, no token without an access token is
\* returned, saved or sent to the UI as a login.
C19_EmptyAccessTokenFails ==
    /\ pollResult.tok # NoTok => pollResult.tok.AccessToken # ""
    /\ \A i \in 1 .. Len(saved) : saved[i].AccessToken # ""
    /\ \A t \in {NoTok, [AccessToken |-> ""]} : cmdMsg # TokenMsg(t)
    /\ (Len(resps) > 0 /\ resps[Len(resps)] = RespOkEmpty) =>
          /\ pollResult = Returned(NoTok, ErrMissingAccess)
          /\ saved = <<>>
          /\ ppc = "cmdDone" => cmdMsg = InboxErrMsg(ErrMissingAccess)

C19_Witness ==
    /\ ppc = "cmdDone"
    /\ resps = <<RespPending, RespOkEmpty>>
    /\ cmdMsg = InboxErrMsg(ErrMissingAccess)
    /\ saved = <<>>

\* C21: a poller has at most one request in flight, a request is issued only
\* when every earlier request has been answered, and between two consecutive
\* requests there is exactly one sleep, of the interval then in force.
C21_OneRequestThenOneSleep ==
    /\ [](/\ Len(reqTimes) - Len(resps) \in {0, 1}
          /\ Len(reqTimes) = Len(resps) + 1 <=> ppc = "await")
    /\ [][reqTimes' # reqTimes =>
            LET n == Len(reqTimes) IN
            /\ Len(reqTimes') = n + 1
            /\ Len(resps) = n
            /\ Len(sleeps) = n
            /\ n > 0 => /\ sleeps[n] = intervalSec
                        /\ sleeps[n] > 0
                        /\ now >= reqTimes[n] + sleeps[n]]_vars

C21_Witness ==
    /\ ppc = "await"
    /\ Len(reqTimes) = 3
    /\ resps = <<RespPending, RespSlowDown>>
    /\ sleeps = <<startInterval, startInterval + SlowDownStep>>

----------------------------------------------------------------------------
(* The device-flow app: model.Update and its commands *)

ErrCreds        == <<"reading credentials.json failed">>
ErrLoadToken    == <<"loading token.json failed">>
ErrMissingCreds == <<"missing credentials.json">>
ErrDeviceCode   == <<"device code failed">>
ErrFetch        == <<"inbox fetch failed">>

DiskToken   == [AccessToken |-> "tA"]
DeviceToken == [AccessToken |-> "tB"]

\* a running command: its kind, the l key press it stems from (0 = none) and,
\* for waitForDeviceTokenCmd, its arguments
Cmd(kind, att, deviceCode, iv, exp) ==
    [kind |-> kind, att |-> att, deviceCode |-> deviceCode,
     intervalSec |-> iv, expiresSec |-> exp]

\* a message on its way to Update
Msg(type, att, tok, err) ==
    [type |-> type, att |-> att, tok |-> tok, err |-> err]

\* deviceCodeResp; response k carries the k-th device code, user code and URL
DeviceCodeResp(k, iv, exp) ==
    [DeviceCode |-> k, UserCode |-> k, VerificationURI |-> k,
     ExpiresIn |-> exp, Interval |-> iv]

\* variant: the interval of the response is passed on as it is
StartDeviceFlow_NoDefault(r, k) ==
    IF ~r.ok
    THEN [err |-> ErrDeviceCode, dc |-> DeviceCodeResp(0, 0, 0)]
    ELSE [err |-> NoErr, dc |-> DeviceCodeResp(k, r.interval, r.expires_in)]

\* startDeviceFlow, given the k-th answer r of the endpoint
StartDeviceFlow(r, k) ==
    IF ~r.ok
    THEN [err |-> ErrDeviceCode, dc |-> DeviceCodeResp(0, 0, 0)]
    ELSE [err |-> NoErr,
          dc  |-> DeviceCodeResp(k,
                                 IF r.interval = 0 THEN DefaultInterval
                                                   ELSE r.interval,
                                 r.expires_in)]

\* tea.NewProgram(newModel()) and Init(): loadCredsCmd and loadTokenCmd run
DevInit ==
    /\ LbInit
    /\ PollIdle
    /\ StoreIdle
    /\ AppIdle
    /\ ListIdle
    /\ step = "authIdle"
    /\ mErr = NoErr
    /\ verificationURL = 0
    /\ userCode = 0
    /\ mCfg = "nil"
    /\ token = NoTok
    /\ cmds = {Cmd("loadCreds", 0, 0, 0, 0), Cmd("loadToken", 0, 0, 0, 0)}
    /\ msgs = {}
    /\ nCmd = 2
    /\ presses = 0
    /\ dcReqs = <<>>

\* command c returns message m
Finish(c, m) ==
    /\ cmds' = cmds \ {c}
    /\ msgs' = msgs \cup {m}

\* Update returns the model and starts command kind
Start(m, kind, att, deviceCode, iv, exp) ==
    /\ nCmd' = nCmd + 1
    /\ cmds' = cmds \cup {Cmd(kind, att, deviceCode, iv, exp)}
    /\ msgs' = msgs \ {m}

\* Update returns the model and no command
StartNone(m) ==
    /\ msgs' = msgs \ {m}
    /\ UNCHANGED <<cmds, nCmd>>

\* loadCredsCmd
CmdLoadCreds ==
    \E c \in cmds :
        /\ c.kind = "loadCreds"
        /\ \E e \in {NoErr, ErrCreds} :
              Finish(c, Msg("credsMsg", 0, NoTok, e))
        /\ UNCHANGED <<step, mErr, verificationURL, userCode, mCfg, token,
                       nCmd, presses, dcReqs>>
        /\ UNCHANGED nonDevVars

\* loadTokenCmd
CmdLoadToken ==
    \E c \in cmds :
        /\ c.kind = "loadToken"
        /\ \/ Finish(c, Msg("tokenMsg", 0, DiskToken, NoErr))
           \/ Finish(c, Msg("tokenMsg", 0, NoTok, ErrLoadToken))
        /\ UNCHANGED <<step, mErr, verificationURL, userCode, mCfg, token,
                       nCmd, presses, dcReqs>>
        /\ UNCHANGED nonDevVars

\* the command of the l key: func() tea.Msg { return authInfoMsg{} }
CmdTrigger ==
    \E c \in cmds :
        /\ c.kind = "trigger"
        /\ Finish(c, Msg("authInfoMsg", c.att, NoTok, NoErr))
        /\ UNCHANGED <<step, mErr, verificationURL, userCode, mCfg, token,
                       nCmd, presses, dcReqs>>
        /\ UNCHANGED nonDevVars

\* waitForDeviceTokenCmd: pollDeviceToken returns an error (the one of the
\* deadline stands for all of them: Update treats them alike) or a token
CmdWaitDone ==
    \E c \in cmds :
        /\ c.kind = "wait"
        /\ \/ \E e \in {ErrExpired} :
                 Finish(c, Msg("inboxMsg", c.att, NoTok, e))
           \/ Finish(c, Msg("tokenMsg", c.att, DeviceToken, NoErr))
        /\ UNCHANGED <<step, mErr, verificationURL, userCode, mCfg, token,
                       nCmd, presses, dcReqs>>
        /\ UNCHANGED nonDevVars

\* fetchInboxCmd
CmdFetch ==
    \E c \in cmds :
        /\ c.kind = "fetch"
        /\ \E e \in {NoErr, ErrFetch} :
              Finish(c, Msg("inboxMsg", c.att, NoTok, e))
        /\ UNCHANGED <<step, mErr, verificationURL, userCode, mCfg, token,
                       nCmd, presses, dcReqs>>
        /\ UNCHANGED nonDevVars

\* case credsMsg
UpdCredsMsg ==
    \E m \in msgs :
        /\ m.type = "credsMsg"
        /\ IF m.err # NoErr
           THEN mErr' = m.err /\ UNCHANGED mCfg
           ELSE mCfg' = "cfg" /\ UNCHANGED mErr
        /\ StartNone(m)
        /\ UNCHANGED <<step, verificationURL, userCode, token, presses, dcReqs>>
        /\ UNCHANGED nonDevVars

\* case tokenMsg
UpdTokenMsg ==
    \E m \in msgs :
        /\ m.type = "tokenMsg"
        /\ IF m.err = NoErr /\ m.tok # NoTok
           THEN /\ token' = m.tok
                /\ step' = "authDone"
                /\ Start(m, "fetch", m.att, 0, 0, 0)
           ELSE /\ step' = IF token = NoTok THEN "authNeedLogin" ELSE step
                /\ UNCHANGED token
                /\ StartNone(m)
        /\ UNCHANGED <<mErr, verificationURL, userCode, mCfg, presses, dcReqs>>
        /\ UNCHANGED nonDevVars

\* case authInfoMsg
UpdAuthInfoMsg ==
    \E m \in msgs :
        /\ m.type = "authInfoMsg"
        /\ \/ \* readCredentials fails
              /\ mErr' = ErrCreds
              /\ StartNone(m)
              /\ UNCHANGED <<step, verificationURL, userCode, dcReqs>>
           \/ \E r \in DeviceResponses :
                LET out == StartDeviceFlow(r, Len(dcReqs) + 1)
                    dc  == out.dc
                IN  /\ dcReqs' = Append(dcReqs, [att |-> m.att, resp |-> r, out |-> out])
                    /\ IF out.err # NoErr
                       THEN /\ mErr' = out.err
                            /\ StartNone(m)
                            /\ UNCHANGED <<step, verificationURL, userCode>>
                       ELSE /\ verificationURL' = dc.VerificationURI
                            /\ userCode' = dc.UserCode
                            /\ step' = "authWaiting"
                            /\ Start(m, "wait", m.att, dc.DeviceCode,
                                     dc.Interval, dc.ExpiresIn)
                            /\ UNCHANGED mErr
        /\ UNCHANGED <<mCfg, token, presses>>
        /\ UNCHANGED nonDevVars

\* case inboxMsg
UpdInboxMsg ==
    \E m \in msgs :
        /\ m.type = "inboxMsg"
        /\ mErr' = m.err
        /\ StartNone(m)
        /\ UNCHANGED <<step, verificationURL, userCode, mCfg, token, presses,
                       dcReqs>>
        /\ UNCHANGED nonDevVars

\* case tea.KeyMsg, "l"
KeyL ==
    /\ nCmd > 0
    /\ presses < MaxPress
    /\ presses' = presses + 1
    /\ IF mCfg = "nil"
       THEN /\ mErr' = ErrMissingCreds
            /\ UNCHANGED <<step, cmds, nCmd>>
       ELSE /\ mErr' = NoErr
            /\ step' = "authWaiting"
            /\ nCmd' = nCmd + 1
            /\ cmds' = cmds \cup {Cmd("trigger", presses + 1, 0, 0, 0)}
    /\ UNCHANGED <<verificationURL, userCode, mCfg, token, msgs, dcReqs>>
    /\ UNCHANGED nonDevVars

DevNext ==
    \/ CmdLoadCreds \/ CmdLoadToken \/ CmdTrigger \/ CmdWaitDone \/ CmdFetch
    \/ UpdCredsMsg \/ UpdTokenMsg \/ UpdAuthInfoMsg \/ UpdInboxMsg
    \/ KeyL

DevAppSpec == DevInit /\ [][DevNext]_vars

----------------------------------------------------------------------------
\* Properties of the device-flow app

Pollers == {c \in cmds : c.kind = "wait"}

\* C12 (as claimed): at most one login is in flight: while the poller of one
\* l key press is running, no second device-authorization request is made and
\* no second poller is started.
C12_SingleLoginInFlight == Cardinality(Pollers) <= 1

\* the requests made for the l key press att
RequestsOf(att) == {k \in 1 .. Len(dcReqs) : dcReqs[k].att = att}

\* C20 (as claimed): one device-authorization request per l key press, every
\* poller polls the device code of the response whose verification URL and
\* user code the model shows, and every device code obtained is polled.
C20_PolledCodeIsShownCode ==
    /\ \A a \in 1 .. MaxPress : Cardinality(RequestsOf(a)) <= 1
    /\ \A c \in Pollers :
          /\ c.deviceCode \in RequestsOf(c.att)
          /\ verificationURL = dcReqs[c.deviceCode].out.dc.VerificationURI
          /\ userCode = dcReqs[c.deviceCode].out.dc.UserCode

\* the part of C20 that holds: at most one request per l key press, and the
\* poller Update starts is given the device code of the very response whose
\* URL and user code Update stores in the same step
OneRequestPerPress ==
    /\ [](\A a \in 1 .. MaxPress : Cardinality(RequestsOf(a)) <= 1)
    /\ [][(dcReqs' # dcReqs /\ dcReqs'[Len(dcReqs')].out.err = NoErr) =>
            \E c \in Pollers' \ Pollers : c.deviceCode = Len(dcReqs')]_vars
    /\ [][\A c \in Pollers' \ Pollers :
            /\ verificationURL' = c.deviceCode
            /\ userCode' = c.deviceCode
            /\ dcReqs' # dcReqs
            /\ dcReqs'[c.deviceCode].att = c.att]_vars

\* C27: startDeviceFlow returns the interval 5 when the response gives none
\* (or 0) and the server's interval otherwise, so the poller is started with a
\* positive interval.
C27_DefaultInterval ==
    /\ \A k \in 1 .. Len(dcReqs) :
          dcReqs[k].out.err = NoErr =>
              /\ dcReqs[k].resp.interval = 0 => dcReqs[k].out.dc.Interval = 5
              /\ dcReqs[k].resp.interval # 0 =>
                    dcReqs[k].out.dc.Interval = dcReqs[k].resp.interval
    /\ \A c \in Pollers :
          /\ c.intervalSec = dcReqs[c.deviceCode].out.dc.Interval
          /\ c.intervalSec > 0

C27_Witness ==
    \E c \in Pollers :
        /\ dcReqs[c.deviceCode].resp.interval = 0
        /\ c.intervalSec = 5

----------------------------------------------------------------------------
(* TokenStore: Save and Load (src/internal/store/token_store.go) *)

\* time.Time: an instant (sec, nsec), whether it carries a monotonic clock
\* reading (time.Now() does), and its location
Time(sec, nsec, mono, loc) == [sec |-> sec, nsec |-> nsec, mono |-> mono, loc |-> loc]

\* the zero time.Time
ZeroTime == Time(0, 0, FALSE, "UTC")

IsZero(t) == t.sec = 0 /\ t.nsec = 0

\* Time.Equal: the same instant
TimeEqual(a, b) == a.sec = b.sec /\ a.nsec = b.nsec

Times ==
    {ZeroTime} \cup
    {Time(sec, nsec, mono, loc) :
        sec \in 1 .. MaxSec, nsec \in {0, 500}, mono \in BOOLEAN,
        loc \in {"UTC", "Local"}}

\* oauth2.Token, its exported fields
Tokens ==
    [AccessToken : {"", "a"}, TokenType : {"", "Bearer"},
     RefreshToken : {"", "r"}, Expiry : Times]

\* variant: the expiry is written with a precision of one second
FormatTime_Seconds(t) ==
    [sec |-> t.sec, nsec |-> 0, zone |-> IF t.loc = "UTC" THEN "Z" ELSE "+01:00"]

\* Time.MarshalJSON: RFC 3339 with nanoseconds; the monotonic reading is not
\* written, the location is written as its offset
FormatTime(t) ==
    [sec |-> t.sec, nsec |-> t.nsec, zone |-> IF t.loc = "UTC" THEN "Z" ELSE "+01:00"]

\* Time.UnmarshalJSON
ParseTime(x) ==
    Time(x.sec, x.nsec, FALSE, IF x.zone = "Z" THEN "UTC" ELSE "Local")

\* the keys json.MarshalIndent writes for a token: token_type and
\* refresh_token are omitempty; omitempty has no effect on the struct Expiry
JSONKeys(t) ==
    {"access_token", "expiry"}
        \cup (IF t.TokenType # "" THEN {"token_type"} ELSE {})
        \cup (IF t.RefreshToken # "" THEN {"refresh_token"} ELSE {})

\* json.MarshalIndent(t, "", "  "): the JSON object, as a function of its keys
MarshalToken(t) ==
    [k \in JSONKeys(t) |->
        CASE k = "access_token"  -> <<t.AccessToken>>
          [] k = "token_type"    -> <<t.TokenType>>
          [] k = "refresh_token" -> <<t.RefreshToken>>
          [] k = "expiry"        -> <<FormatTime(t.Expiry)>>]

\* a readable token.json with object obj; a text that is no JSON
JSONFile(obj) == [valid |-> TRUE, obj |-> obj]
BrokenFile == [valid |-> FALSE, obj |-> <<>>]

\* var t oauth2.Token; json.Unmarshal(b, &t): a key that is missing leaves
\* the zero value of its field
UnmarshalToken(obj) ==
    [AccessToken  |-> IF "access_token" \in DOMAIN obj
                      THEN obj["access_token"][1] ELSE "",
     TokenType    |-> IF "token_type" \in DOMAIN obj
                      THEN obj["token_type"][1] ELSE "",
     RefreshToken |-> IF "refresh_token" \in DOMAIN obj
                      THEN obj["refresh_token"][1] ELSE "",
     Expiry       |-> IF "expiry" \in DOMAIN obj
                      THEN ParseTime(obj["expiry"][1]) ELSE ZeroTime]

ErrWriteFile == <<"write token.json failed">>
ErrReadFile  == <<"read token.json failed">>
ErrBadJSON   == <<"token.json is not JSON">>

\* a caller is about to save a token; token.json may exist from an earlier run
StoreInit ==
    /\ LbInit
    /\ PollIdle
    /\ DevIdle
    /\ AppIdle
    /\ ListIdle
    /\ spc = "save"
    /\ saveTok \in Tokens
    /\ file \in {<<>>, <<JSONFile(MarshalToken([AccessToken |-> "old",
                    TokenType |-> "Bearer", RefreshToken |-> "old",
                    Expiry |-> ZeroTime]))>>}
    /\ saveErr = NoErr
    /\ loaded = NoResult

\* Save: MarshalIndent, then os.WriteFile succeeds
StoreSaveOk ==
    /\ spc = "save"
    /\ file' = <<JSONFile(MarshalToken(saveTok))>>
    /\ saveErr' = NoErr
    /\ spc' = "load"
    /\ UNCHANGED <<saveTok, loaded>>
    /\ UNCHANGED nonStoreVars

\* Save: os.WriteFile fails, before or after it truncated the file
StoreSaveFail ==
    /\ spc = "save"
    /\ \/ UNCHANGED file
       \/ file' = <<BrokenFile>>
    /\ saveErr' = ErrWriteFile
    /\ spc' = "load"
    /\ UNCHANGED <<saveTok, loaded>>
    /\ UNCHANGED nonStoreVars

\* Load
StoreLoad ==
    /\ spc = "load"
    /\ loaded' = IF file = <<>> THEN Returned(NoTok, ErrReadFile)
                 ELSE IF ~file[1].valid THEN Returned(NoTok, ErrBadJSON)
                 ELSE Returned(UnmarshalToken(file[1].obj), NoErr)
    /\ spc' = "done"
    /\ UNCHANGED <<saveTok, file, saveErr>>
    /\ UNCHANGED nonStoreVars

StoreNext == StoreSaveOk \/ StoreSaveFail \/ StoreLoad

StoreSpec == StoreInit /\ [][StoreNext]_vars

\* C26 (as claimed): the token Load returns after a successful Save equals
\* the saved one in every field, the value of Expiry included.
C26_LoadedEqualsSaved ==
    (spc = "done" /\ saveErr = NoErr) =>
        /\ loaded.err = NoErr
        /\ loaded.tok = saveTok

\* C26: Load after a successful Save returns a token with the same access
\* token, token type and refresh token and the same expiry instant; an empty
\* (absent) refresh token and a zero (absent) expiry come back empty and zero.
C26_SaveLoadRoundTrip ==
    (spc = "done" /\ saveErr = NoErr) =>
        /\ loaded.err = NoErr
        /\ loaded.tok.AccessToken = saveTok.AccessToken
        /\ loaded.tok.TokenType = saveTok.TokenType
        /\ loaded.tok.RefreshToken = saveTok.RefreshToken
        /\ TimeEqual(loaded.tok.Expiry, saveTok.Expiry)
        /\ IsZero(loaded.tok.Expiry) <=> IsZero(saveTok.Expiry)

C26_Witness ==
    /\ spc = "done"
    /\ saveErr = NoErr
    /\ saveTok.RefreshToken = ""
    /\ saveTok.Expiry = Time(MaxSec, 500, TRUE, "Local")
    /\ "refresh_token" \notin DOMAIN file[1].obj
    /\ loaded.tok.RefreshToken = ""
    /\ loaded.tok.Expiry = Time(MaxSec, 500, FALSE, "Local")

----------------------------------------------------------------------------
(* The loopback app: model.Update and its commands (package app) *)

ErrCredsFile  == <<"missing credentials.json in project root">>
ErrMissingCfg == <<"missing oauth config">>
ErrAPI        == <<"gmail api call failed">>
ErrRefresh    == <<"token refresh failed">>

\* the instant of the API calls, in the seconds of Times
FetchTime == 1

\* oauth2.Token.Valid, as the token source of gmailx.New tests it
TokenValid(t) ==
    /\ t.AccessToken # ""
    /\ IsZero(t.Expiry) \/ t.Expiry.sec > FetchTime

\* the tokens of the runs: saved by an earlier run (still valid, or expired),
\* issued by LoopbackLogin, obtained by a refresh
SavedValidToken ==
    [AccessToken |-> "a", TokenType |-> "Bearer", RefreshToken |-> "r",
     Expiry |-> Time(FetchTime + 1, 0, FALSE, "UTC")]
SavedStaleToken ==
    [AccessToken |-> "a", TokenType |-> "Bearer", RefreshToken |-> "r",
     Expiry |-> Time(FetchTime, 0, FALSE, "UTC")]
LoginToken ==
    [AccessToken |-> "b", TokenType |-> "Bearer", RefreshToken |-> "r",
     Expiry |-> Time(FetchTime + 1, 0, TRUE, "Local")]
RefreshedToken ==
    [AccessToken |-> "c", TokenType |-> "Bearer", RefreshToken |-> "r",
     Expiry |-> Time(FetchTime + 1, 500, TRUE, "Local")]

\* texts are sequences of characters
LabelPrefix == <<"l", "a", "b", "e", "l", ":">>

\* the id of the listed message and of the listed label
MessageID == <<"m", "1">>
LabelID   == <<"L", "1">>

\* m.query = "label:" + it.id
LabelQuery(id) == LabelPrefix \o id

\* the number of rows of a listing that succeeds: the message MessageID, the
\* label LabelID
ListedRows == {1}

\* the texts of the keys typed into the search input, and the keys that quit
TypedKeys == {<<"x">>}
QuitKeys  == {"q", "ctrl+c"}

\* a running command: its kind and what its closure captured
AppCmd(id, kind, cfgv, tok, store, arg) ==
    [id |-> id, kind |-> kind, cfg |-> cfgv, tok |-> tok, store |-> store,
     arg |-> arg]

\* a message on its way to Update
AppMsg(id, type, tok, err, items) ==
    [id |-> id, type |-> type, tok |-> tok, err |-> err, items |-> items]

\* tea.NewProgram(NewModel()) and Init(): loadCfgCmd and loadTokenCmd run;
\* NewTokenStore may have failed (m.store = nil); token.json may exist
AppInit ==
    /\ LbInit
    /\ PollIdle
    /\ DevIdle
    /\ StoreIdle
    /\ ListIdle
    /\ screen = "screenAuth"
    /\ appErr = NoErr
    /\ appCfg = "nil"
    /\ appToken = NoTok
    /\ appStore \in {"store", "nil"}
    /\ query = <<>>
    /\ searchInput = <<>>
    /\ detailID = <<>>
    /\ inbox = 0
    /\ labels = 0
    /\ appCmds = {AppCmd(1, "loadCfg", "nil", NoTok, appStore, <<>>),
                  AppCmd(2, "loadToken", "nil", NoTok, appStore, <<>>)}
    /\ appMsgs = {}
    /\ appNCmd = 2
    /\ keys = 0
    /\ tokenFile \in {<<>>, <<JSONFile(MarshalToken(SavedValidToken))>>,
                      <<JSONFile(MarshalToken(SavedStaleToken))>>}
    /\ logins = 0
    /\ refreshes = {}
    /\ swallowed = {}
    /\ quit = ""

\* command c returns message m
AppFinish(c, m) ==
    /\ appCmds' = appCmds \ {c}
    /\ appMsgs' = appMsgs \cup {m}

\* Update returns the model and the command kind, whose closure captures
\* cfgv, tok and arg
AppStart(m, kind, cfgv, tok, arg) ==
    /\ appNCmd' = appNCmd + 1
    /\ appCmds' = appCmds \cup {AppCmd(appNCmd + 1, kind, cfgv, tok, appStore, arg)}
    /\ appMsgs' = appMsgs \ {m}

\* loadCfgCmd
ACmdLoadCfg ==
    \E c \in appCmds :
        /\ c.kind = "loadCfg"
        /\ \/ AppFinish(c, AppMsg(c.id, "errMsg", NoTok, ErrCredsFile, 0))
           \/ AppFinish(c, AppMsg(c.id, "cfgMsg", NoTok, NoErr, 0))
        /\ UNCHANGED <<screen, appErr, appCfg, appToken, appStore, query,
                      searchInput, detailID, inbox, labels, appNCmd, keys,
                      tokenFile, logins, refreshes, swallowed>>
        /\ UNCHANGED quit
        /\ UNCHANGED nonAppVars

\* loadTokenCmd
ACmdLoadToken ==
    \E c \in appCmds :
        /\ c.kind = "loadToken"
        /\ IF c.store = "nil"
           THEN AppFinish(c, AppMsg(c.id, "tokenLoadedMsg", NoTok, NoErr, 0))
           ELSE IF tokenFile = <<>>
           THEN AppFinish(c, AppMsg(c.id, "tokenLoadedMsg", NoTok, ErrReadFile, 0))
           ELSE IF ~tokenFile[1].valid
           THEN AppFinish(c, AppMsg(c.id, "tokenLoadedMsg", NoTok, ErrBadJSON, 0))
           ELSE AppFinish(c, AppMsg(c.id, "tokenLoadedMsg",
                                    UnmarshalToken(tokenFile[1].obj), NoErr, 0))
        /\ UNCHANGED <<screen, appErr, appCfg, appToken, appStore, query,
                      searchInput, detailID, inbox, labels, appNCmd, keys,
                      tokenFile, logins, refreshes, swallowed>>
        /\ UNCHANGED quit
        /\ UNCHANGED nonAppVars

\* variant: loginCmd calls LoopbackLogin whatever m.cfg is
LoginRefused_Never(c) == FALSE

\* loginCmd: if m.cfg == nil { return errMsg{err: errMissingCfg{}} }
LoginRefused(c) == c.cfg = "nil"

\* variant: loginCmd returns the token without calling Save
ACmdLogin_NoSave ==
    \E c \in appCmds :
        /\ c.kind = "login"
        /\ IF LoginRefused(c)
           THEN /\ AppFinish(c, AppMsg(c.id, "errMsg", NoTok, ErrMissingCfg, 0))
                /\ UNCHANGED <<logins, tokenFile, swallowed>>
           ELSE /\ logins' = logins + 1
                /\ \/ \* LoopbackLogin fails
                      /\ \E e \in {ErrTimeout, ErrOpen, ErrExchange} :
                            AppFinish(c, AppMsg(c.id, "loginDoneMsg", NoTok, e, 0))
                      /\ UNCHANGED <<tokenFile, swallowed>>
                   \/ \* LoopbackLogin returns a token; _ = m.store.Save(tok)
                      /\ AppFinish(c, AppMsg(c.id, "tokenLoadedMsg", LoginToken,
                                             NoErr, 0))
                      /\ UNCHANGED <<tokenFile, swallowed>>
        /\ UNCHANGED <<screen, appErr, appCfg, appToken, appStore, query,
                      searchInput, detailID, inbox, labels, appNCmd, keys,
                      refreshes>>
        /\ UNCHANGED quit
        /\ UNCHANGED nonAppVars

\* loginCmd
ACmdLogin ==
    \E c \in appCmds :
        /\ c.kind = "login"
        /\ IF LoginRefused(c)
           THEN /\ AppFinish(c, AppMsg(c.id, "errMsg", NoTok, ErrMissingCfg, 0))
                /\ UNCHANGED <<logins, tokenFile, swallowed>>
           ELSE /\ logins' = logins + 1
                /\ \/ \* LoopbackLogin fails
                      /\ \E e \in {ErrTimeout, ErrOpen, ErrExchange} :
                            AppFinish(c, AppMsg(c.id, "loginDoneMsg", NoTok, e, 0))
                      /\ UNCHANGED <<tokenFile, swallowed>>
                   \/ \* LoopbackLogin returns a token; _ = m.store.Save(tok)
                      /\ AppFinish(c, AppMsg(c.id, "tokenLoadedMsg", LoginToken,
                                             NoErr, 0))
                      /\ \/ /\ c.store = "nil"
                            /\ UNCHANGED <<tokenFile, swallowed>>
                         \/ /\ c.store = "store"
                            /\ tokenFile' = <<JSONFile(MarshalToken(LoginToken))>>
                            /\ UNCHANGED swallowed
                         \/ /\ c.store = "store"
                            /\ tokenFile' \in {tokenFile, <<BrokenFile>>}
                            /\ swallowed' = swallowed \cup
                                    {[id |-> c.id, err |-> ErrWriteFile]}
        /\ UNCHANGED <<screen, appErr, appCfg, appToken, appStore, query,
                      searchInput, detailID, inbox, labels, appNCmd, keys,
                      refreshes>>
        /\ UNCHANGED quit
        /\ UNCHANGED nonAppVars

\* gmailx.New and one API call with the token source of cfg and tok: a token
\* that is not valid is refreshed first, inside the token source
ApiCall(c, okMsg, type) ==
    IF TokenValid(c.tok)
    THEN /\ \/ AppFinish(c, okMsg)
            \/ AppFinish(c, AppMsg(c.id, type, NoTok, ErrAPI, 0))
         /\ UNCHANGED refreshes
    ELSE \/ /\ AppFinish(c, AppMsg(c.id, type, NoTok, ErrRefresh, 0))
            /\ UNCHANGED refreshes
         \/ /\ refreshes' = refreshes \cup {[id |-> c.id, tok |-> RefreshedToken]}
            /\ \/ AppFinish(c, okMsg)
               \/ AppFinish(c, AppMsg(c.id, type, NoTok, ErrAPI, 0))

\* fetchInboxCmd
ACmdFetchInbox ==
    \E c \in appCmds :
        /\ c.kind = "fetchInbox"
        /\ IF c.cfg = "nil" \/ c.tok = NoTok
           THEN /\ AppFinish(c, AppMsg(c.id, "inboxMsg", NoTok, ErrMissingCfg, 0))
                /\ UNCHANGED refreshes
           ELSE \E n \in ListedRows :
                   ApiCall(c, AppMsg(c.id, "inboxMsg", NoTok, NoErr, n), "inboxMsg")
        /\ UNCHANGED <<screen, appErr, appCfg, appToken, appStore, query,
                      searchInput, detailID, inbox, labels, appNCmd, keys,
                      tokenFile, logins, swallowed>>
        /\ UNCHANGED quit
        /\ UNCHANGED nonAppVars

\* fetchDetailCmd
ACmdFetchDetail ==
    \E c \in appCmds :
        /\ c.kind = "fetchDetail"
        /\ ApiCall(c, AppMsg(c.id, "detailMsg", NoTok, NoErr, 0), "detailMsg")
        /\ UNCHANGED <<screen, appErr, appCfg, appToken, appStore, query,
                      searchInput, detailID, inbox, labels, appNCmd, keys,
                      tokenFile, logins, swallowed>>
        /\ UNCHANGED quit
        /\ UNCHANGED nonAppVars

\* fetchLabelsCmd
ACmdFetchLabels ==
    \E c \in appCmds :
        /\ c.kind = "fetchLabels"
        /\ IF c.cfg = "nil" \/ c.tok = NoTok
           THEN /\ AppFinish(c, AppMsg(c.id, "labelsMsg", NoTok, ErrMissingCfg, 0))
                /\ UNCHANGED refreshes
           ELSE \E n \in ListedRows :
                   ApiCall(c, AppMsg(c.id, "labelsMsg", NoTok, NoErr, n), "labelsMsg")
        /\ UNCHANGED <<screen, appErr, appCfg, appToken, appStore, query,
                      searchInput, detailID, inbox, labels, appNCmd, keys,
                      tokenFile, logins, swallowed>>
        /\ UNCHANGED quit
        /\ UNCHANGED nonAppVars

\* case cfgMsg
UpdCfgMsg ==
    \E m \in appMsgs :
        /\ m.type = "cfgMsg"
        /\ appCfg' = "cfg"
        /\ appMsgs' = appMsgs \ {m}
        /\ UNCHANGED <<screen, appErr, appToken, appStore, query,
                      searchInput, detailID, inbox, labels, appCmds,
                      appNCmd, keys, tokenFile, logins, refreshes,
                      swallowed>>
        /\ UNCHANGED quit
        /\ UNCHANGED nonAppVars

\* variant: any tokenLoadedMsg without error opens the inbox
UpdTokenLoadedMsg_NoTokCheck ==
    \E m \in appMsgs :
        /\ m.type = "tokenLoadedMsg"
        /\ IF m.err = NoErr
           THEN /\ appToken' = m.tok
                /\ screen' = "screenInbox"
                /\ AppStart(m, "fetchInbox", appCfg, m.tok, query)
           ELSE /\ appMsgs' = appMsgs \ {m}
                /\ UNCHANGED <<appToken, screen, appCmds, appNCmd>>
        /\ UNCHANGED <<appErr, appCfg, appStore, query, searchInput,
                      detailID, inbox, labels, keys, tokenFile, logins,
                      refreshes, swallowed>>
        /\ UNCHANGED quit
        /\ UNCHANGED nonAppVars

\* case tokenLoadedMsg
UpdTokenLoadedMsg ==
    \E m \in appMsgs :
        /\ m.type = "tokenLoadedMsg"
        /\ IF m.tok # NoTok /\ m.err = NoErr
           THEN /\ appToken' = m.tok
                /\ screen' = "screenInbox"
                /\ AppStart(m, "fetchInbox", appCfg, m.tok, query)
           ELSE /\ appMsgs' = appMsgs \ {m}
                /\ UNCHANGED <<appToken, screen, appCmds, appNCmd>>
        /\ UNCHANGED <<appErr, appCfg, appStore, query, searchInput,
                      detailID, inbox, labels, keys, tokenFile, logins,
                      refreshes, swallowed>>
        /\ UNCHANGED quit
        /\ UNCHANGED nonAppVars

\* case inboxMsg
UpdAppInboxMsg ==
    \E m \in appMsgs :
        /\ m.type = "inboxMsg"
        /\ appErr' = m.err
        /\ inbox' = IF m.err # NoErr THEN inbox ELSE m.items
        /\ appMsgs' = appMsgs \ {m}
        /\ UNCHANGED <<screen, appCfg, appToken, appStore, query,
                      searchInput, detailID, labels, appCmds, appNCmd, keys,
                      tokenFile, logins, refreshes, swallowed>>
        /\ UNCHANGED quit
        /\ UNCHANGED nonAppVars

\* case detailMsg
UpdDetailMsg ==
    \E m \in appMsgs :
        /\ m.type = "detailMsg"
        /\ appErr' = m.err
        /\ screen' = IF m.err # NoErr THEN screen ELSE "screenDetail"
        /\ appMsgs' = appMsgs \ {m}
        /\ UNCHANGED <<appCfg, appToken, appStore, query, searchInput,
                      detailID, inbox, labels, appCmds, appNCmd, keys,
                      tokenFile, logins, refreshes, swallowed>>
        /\ UNCHANGED quit
        /\ UNCHANGED nonAppVars

\* case labelsMsg
UpdLabelsMsg ==
    \E m \in appMsgs :
        /\ m.type = "labelsMsg"
        /\ appErr' = m.err
        /\ labels' = IF m.err # NoErr THEN labels ELSE m.items
        /\ screen' = IF m.err # NoErr THEN screen ELSE "screenLabels"
        /\ appMsgs' = appMsgs \ {m}
        /\ UNCHANGED <<appCfg, appToken, appStore, query, searchInput,
                      detailID, inbox, appCmds, appNCmd, keys, tokenFile,
                      logins, refreshes, swallowed>>
        /\ UNCHANGED quit
        /\ UNCHANGED nonAppVars

\* variant: the message of a failed login opens the inbox
UpdErrMsg_OpensInbox ==
    \E m \in appMsgs :
        /\ m.type \in {"loginDoneMsg", "errMsg"}
        /\ appErr' = m.err
        /\ appMsgs' = appMsgs \ {m}
        /\ screen' = "screenInbox"
        /\ UNCHANGED <<appCfg, appToken, appStore, query,
                      searchInput, detailID, inbox, labels, appCmds,
                      appNCmd, keys, tokenFile, logins, refreshes,
                      swallowed>>
        /\ UNCHANGED quit
        /\ UNCHANGED nonAppVars

\* case loginDoneMsg, case errMsg
UpdErrMsg ==
    \E m \in appMsgs :
        /\ m.type \in {"loginDoneMsg", "errMsg"}
        /\ appErr' = m.err
        /\ appMsgs' = appMsgs \ {m}
        /\ UNCHANGED <<screen, appCfg, appToken, appStore, query,
                      searchInput, detailID, inbox, labels, appCmds,
                      appNCmd, keys, tokenFile, logins, refreshes,
                      swallowed>>
        /\ UNCHANGED quit
        /\ UNCHANGED nonAppVars

\* a key is pressed and the program has not been left
KeyPressed ==
    /\ appNCmd > 0
    /\ quit = ""
    /\ keys < MaxKeys
    /\ keys' = keys + 1

\* Update starts the command kind for a key
KeyStart(kind, arg) ==
    /\ appNCmd' = appNCmd + 1
    /\ appCmds' = appCmds \cup {AppCmd(appNCmd + 1, kind, appCfg, appToken, appStore, arg)}

\* "l" on the auth screen
AppKeyL ==
    /\ KeyPressed
    /\ screen = "screenAuth"
    /\ appErr' = NoErr
    /\ KeyStart("login", <<>>)
    /\ UNCHANGED <<screen, appCfg, appToken, appStore, query, searchInput,
                  detailID, inbox, labels, appMsgs, tokenFile, logins,
                  refreshes, swallowed>>
    /\ UNCHANGED quit
    /\ UNCHANGED nonAppVars

\* "r" on the inbox, detail and labels screens
AppKeyR ==
    /\ KeyPressed
    /\ \/ screen = "screenInbox" /\ KeyStart("fetchInbox", query)
       \/ screen = "screenDetail" /\ detailID # <<>> /\ KeyStart("fetchDetail", detailID)
       \/ screen = "screenLabels" /\ KeyStart("fetchLabels", <<>>)
    /\ UNCHANGED <<screen, appErr, appCfg, appToken, appStore, query,
                  searchInput, detailID, inbox, labels, appMsgs, tokenFile,
                  logins, refreshes, swallowed>>
    /\ UNCHANGED quit
    /\ UNCHANGED nonAppVars

\* "g" on the inbox screen
AppKeyG ==
    /\ KeyPressed
    /\ screen = "screenInbox"
    /\ KeyStart("fetchLabels", <<>>)
    /\ UNCHANGED <<screen, appErr, appCfg, appToken, appStore, query,
                  searchInput, detailID, inbox, labels, appMsgs, tokenFile,
                  logins, refreshes, swallowed>>
    /\ UNCHANGED quit
    /\ UNCHANGED nonAppVars

\* "/" on the inbox screen
AppKeySlash ==
    /\ KeyPressed
    /\ screen = "screenInbox"
    /\ searchInput' = query
    /\ screen' = "screenSearch"
    /\ UNCHANGED <<appErr, appCfg, appToken, appStore, query, detailID,
                  inbox, labels, appCmds, appMsgs, appNCmd, tokenFile,
                  logins, refreshes, swallowed>>
    /\ UNCHANGED quit
    /\ UNCHANGED nonAppVars

\* variant: enter on the search screen fetches with the query of before
AppKeyEnter_OldQuery ==
    /\ KeyPressed
    /\ \/ /\ screen = "screenInbox"
          /\ inbox > 0
          /\ detailID' = MessageID
          /\ KeyStart("fetchDetail", MessageID)
          /\ UNCHANGED <<query, screen>>
       \/ /\ screen = "screenSearch"
          /\ query' = searchInput
          /\ screen' = "screenInbox"
          /\ appNCmd' = appNCmd + 1
          /\ appCmds' = appCmds \cup {AppCmd(appNCmd + 1, "fetchInbox", appCfg,
                                             appToken, appStore, query)}
          /\ UNCHANGED detailID
       \/ /\ screen = "screenLabels"
          /\ labels > 0
          /\ query' = LabelQuery(LabelID)
          /\ screen' = "screenInbox"
          /\ appNCmd' = appNCmd + 1
          /\ appCmds' = appCmds \cup {AppCmd(appNCmd + 1, "fetchInbox", appCfg,
                                             appToken, appStore, LabelQuery(LabelID))}
          /\ UNCHANGED detailID
    /\ UNCHANGED <<appErr, appCfg, appToken, appStore, searchInput, inbox,
                  labels, appMsgs, tokenFile, logins, refreshes, swallowed>>
    /\ UNCHANGED quit
    /\ UNCHANGED nonAppVars

\* "enter" on the inbox, search and labels screens
AppKeyEnter ==
    /\ KeyPressed
    /\ \/ /\ screen = "screenInbox"
          /\ inbox > 0
          /\ detailID' = MessageID
          /\ KeyStart("fetchDetail", MessageID)
          /\ UNCHANGED <<query, screen>>
       \/ /\ screen = "screenSearch"
          /\ query' = searchInput
          /\ screen' = "screenInbox"
          /\ appNCmd' = appNCmd + 1
          /\ appCmds' = appCmds \cup {AppCmd(appNCmd + 1, "fetchInbox", appCfg,
                                             appToken, appStore, searchInput)}
          /\ UNCHANGED detailID
       \/ /\ screen = "screenLabels"
          /\ labels > 0
          /\ query' = LabelQuery(LabelID)
          /\ screen' = "screenInbox"
          /\ appNCmd' = appNCmd + 1
          /\ appCmds' = appCmds \cup {AppCmd(appNCmd + 1, "fetchInbox", appCfg,
                                             appToken, appStore, LabelQuery(LabelID))}
          /\ UNCHANGED detailID
    /\ UNCHANGED <<appErr, appCfg, appToken, appStore, searchInput, inbox,
                  labels, appMsgs, tokenFile, logins, refreshes, swallowed>>
    /\ UNCHANGED quit
    /\ UNCHANGED nonAppVars

\* "b" on the detail and labels screens, "esc" on the search screen
AppKeyBack ==
    /\ KeyPressed
    /\ screen \in {"screenDetail", "screenLabels", "screenSearch"}
    /\ screen' = "screenInbox"
    /\ UNCHANGED <<appErr, appCfg, appToken, appStore, query, searchInput,
                  detailID, inbox, labels, appCmds, appMsgs, appNCmd,
                  tokenFile, logins, refreshes, swallowed>>
    /\ UNCHANGED quit
    /\ UNCHANGED nonAppVars

\* any other key on the search screen: m.searchInput.Update(msg)
AppKeyType ==
    /\ appNCmd > 0
    /\ quit = ""
    /\ screen = "screenSearch"
    /\ Len(searchInput) < MaxText
    /\ \E k \in TypedKeys : searchInput' = searchInput \o k
    /\ UNCHANGED <<screen, appErr, appCfg, appToken, appStore, query,
                  detailID, inbox, labels, appCmds, appMsgs, appNCmd, keys,
                  tokenFile, logins, refreshes, swallowed>>
    /\ UNCHANGED quit
    /\ UNCHANGED nonAppVars

\* "ctrl+c" or "q" on any screen: tea.Quit; the program ends, and with it its
\* commands and the messages not yet handled
AppKeyQuit ==
    /\ KeyPressed
    /\ \E k \in QuitKeys : quit' = k
    /\ appCmds' = {}
    /\ appMsgs' = {}
    /\ UNCHANGED <<screen, appErr, appCfg, appToken, appStore, query,
                  searchInput, detailID, inbox, labels, appNCmd, tokenFile,
                  logins, refreshes, swallowed>>
    /\ UNCHANGED nonAppVars

AppNext ==
    \/ ACmdLoadCfg \/ ACmdLoadToken \/ ACmdLogin
    \/ ACmdFetchInbox \/ ACmdFetchDetail \/ ACmdFetchLabels
    \/ UpdCfgMsg \/ UpdTokenLoadedMsg \/ UpdAppInboxMsg \/ UpdDetailMsg
    \/ UpdLabelsMsg \/ UpdErrMsg
    \/ AppKeyL \/ AppKeyR \/ AppKeyG \/ AppKeySlash \/ AppKeyEnter \/ AppKeyBack
    \/ AppKeyType \/ AppKeyQuit

AppSpec == AppInit /\ [][AppNext]_vars

\* either program is started
AppsInit == AppInit \/ DevInit

AppsNext == AppNext \/ DevNext

AppsSpec == AppsInit /\ [][AppsNext]_vars

----------------------------------------------------------------------------
\* Properties of the loopback app

\* the command with id i has returned and Update has handled its message
Handled(i) ==
    /\ quit = ""
    /\ i <= appNCmd
    /\ \A c \in appCmds : c.id # i
    /\ \A m \in appMsgs : m.id # i

\* C29 (as claimed): started with a valid credentials file and a valid saved
\* token, and no key pressed, the app comes to rest on the inbox screen and
\* its err is not the missing-configuration error, whichever of cfgMsg and
\* tokenLoadedMsg Update handles first.
C29_StartupOrderIrrelevant ==
    (keys = 0 /\ appCfg = "cfg" /\ appToken # NoTok /\ appCmds = {}
        /\ appMsgs = {})
        => screen = "screenInbox" /\ appErr # ErrMissingCfg

\* C22 (as claimed): once a fetch whose token source refreshed the access
\* token has returned and its message is handled, m.token or token.json
\* holds the refreshed token.
C22_RefreshedTokenExposed ==
    \A r \in refreshes :
        Handled(r.id) =>
            \/ appToken = r.tok
            \/ tokenFile = <<JSONFile(MarshalToken(r.tok))>>

\* the commands that return in a step
FinishedNow == IF quit' = quit THEN appCmds \ appCmds' ELSE {}

\* the messages Update handles in a step
HandledNow == IF quit' = quit THEN appMsgs \ appMsgs' ELSE {}

\* C23 (as claimed): the error of a failed save of the issued token is not
\* swallowed: when Update handles the message of the login command whose
\* Save failed, the model's err becomes that error.
C23_SaveErrorReported ==
    [][\A e \in swallowed :
          (\E m \in HandledNow : m.id = e.id) => appErr' = e.err]_vars

\* C30: the model starts on the auth screen without a token; a screen other
\* than the auth screen implies a non-nil token; the auth screen is left only
\* by Update handling a tokenLoadedMsg with a non-nil token and no error,
\* which becomes m.token; the token is never reset to nil.
C30_ScreenImpliesToken ==
    /\ screen = "screenAuth" /\ appToken = NoTok
    /\ [](screen # "screenAuth" => appToken # NoTok)
    /\ [][(screen = "screenAuth" /\ screen' # "screenAuth") =>
            \E m \in HandledNow :
                /\ m.type = "tokenLoadedMsg"
                /\ m.tok # NoTok
                /\ m.err = NoErr
                /\ appToken' = m.tok]_vars
    /\ [][appToken # NoTok => appToken' # NoTok]_vars

C30_Witness ==
    /\ screen = "screenDetail"
    /\ appToken = LoginToken
    /\ logins = 1
    /\ keys = 2

----------------------------------------------------------------------------
\* Properties of both apps

\* C25: with the OAuth configuration missing, l starts no login attempt.
\* Loopback app: a login command that captured a nil m.cfg returns
\* errMsg{errMissingCfg} without calling LoopbackLogin (no listener, no
\* browser) and without writing token.json, and Update sets m.err to the
\* error of that errMsg.  Device-flow app: l with m.cfg nil sets m.err to the
\* missing-credentials error, starts no command and sends no
\* device-authorization request.
C25_NoLoginWithoutConfig ==
    /\ [][\A c \in FinishedNow :
            (c.kind = "login" /\ c.cfg = "nil") =>
                /\ logins' = logins
                /\ tokenFile' = tokenFile
                /\ appMsgs' = appMsgs \cup
                        {AppMsg(c.id, "errMsg", NoTok, ErrMissingCfg, 0)}]_vars
    /\ [][\A m \in HandledNow : m.type = "errMsg" => appErr' = m.err]_vars
    /\ [][(presses' # presses /\ mCfg = "nil") =>
            /\ mErr' = ErrMissingCreds
            /\ cmds' = cmds
            /\ msgs' = msgs
            /\ dcReqs' = dcReqs]_vars

C25_Witness ==
    /\ screen = "screenAuth"
    /\ appCfg = "nil"
    /\ keys = 1
    /\ logins = 0
    /\ appErr = ErrMissingCfg
    /\ appCmds = {}
    /\ appMsgs = {}

----------------------------------------------------------------------------
\* Properties of loginCmd

\* the messages the commands return in a step
ReturnedNow == appMsgs' \ appMsgs

SavedLoginToken == <<JSONFile(MarshalToken(LoginToken))>>

C32_FailedLoginSetsErrOnly ==
    /\ [][\A m \in HandledNow : m.type = "loginDoneMsg" =>
            /\ m.err # NoErr
            /\ appErr' = m.err
            /\ appCmds' = appCmds
            /\ UNCHANGED <<screen, appToken, appCfg, appStore, query,
                           searchInput, detailID, inbox, labels, tokenFile>>]_vars
    /\ [][(keys' # keys /\ screen = "screenAuth" /\ quit' = "") =>
            /\ appErr' = NoErr
            /\ screen' = "screenAuth"
            /\ \E c \in appCmds' :
                  /\ c.kind = "login"
                  /\ appCmds' \ appCmds = {c}]_vars

C32_Witness ==
    /\ keys = 2
    /\ logins = 1
    /\ screen = "screenAuth"
    /\ appToken = NoTok
    /\ appErr = NoErr
    /\ appMsgs = {}
    /\ \E c \in appCmds : appCmds = {c} /\ c.kind = "login" /\ c.cfg = "cfg"

----------------------------------------------------------------------------
\* Properties of the search screen

\* Update handles a key in this step
KeyNow == keys' # keys \/ (screen = "screenSearch" /\ searchInput' # searchInput)

\* C33 (as claimed): on the search screen a key other than esc and enter
\* (the two keys that leave the screen; ctrl+c set aside) is forwarded to
\* the search input and the program keeps running: the letter q is typed
\* into the query.
C33_SearchKeysAreTyped ==
    [][(screen = "screenSearch" /\ KeyNow /\ screen' = "screenSearch"
            /\ quit' # "ctrl+c") =>
          /\ quit' = ""
          /\ \E k \in TypedKeys \cup {<<"q">>} :
                searchInput' = searchInput \o k]_vars

\* C34 (as claimed): after the user has opened the search screen with /, a
\* successful detailMsg or labelsMsg of a request made before does not take
\* the screen away from the search screen.
C34_LateResultKeepsScreen ==
    [][\A m \in HandledNow :
          (m.type \in {"detailMsg", "labelsMsg"} /\ m.err = NoErr
              /\ screen = "screenSearch") =>
              screen' = "screenSearch"]_vars

\* C35: a key that takes the search screen to the inbox is esc, which leaves
\* m.query and the input as they are and starts no command, or enter, which
\* sets m.query to the value of the input and starts exactly one command, an
\* inbox fetch that captured the new query.
C35_SearchEscAndEnter ==
    [][(screen = "screenSearch" /\ keys' # keys /\ screen' = "screenInbox") =>
          \/ /\ query' = query
             /\ appCmds' = appCmds
             /\ appNCmd' = appNCmd
          \/ /\ query' = searchInput
             /\ appNCmd' = appNCmd + 1
             /\ \E c \in appCmds' :
                   /\ appCmds' \ appCmds = {c}
                   /\ appCmds \subseteq appCmds'
                   /\ c.kind = "fetchInbox"
                   /\ c.arg = searchInput
                   /\ c.cfg = appCfg
                   /\ c.tok = appToken]_vars

\* enter was pressed on the search screen with a typed text that differs from
\* the query before; the fetch with the new query runs
C35_Witness ==
    /\ screen = "screenInbox"
    /\ keys = 2
    /\ logins = 0
    /\ query = <<"x">>
    /\ searchInput = <<"x">>
    /\ \E c \in appCmds : c.kind = "fetchInbox" /\ c.arg = <<"x">>

----------------------------------------------------------------------------
(* Client.ListInbox: the label filter of the messages.list call *)

\* length of the text before and after the middle part of a query
MaxAffix == 1

\* the letters of "label:" in upper case
UpperOf(c) ==
    CASE c = "l" -> "L"
      [] c = "a" -> "A"
      [] c = "b" -> "B"
      [] c = "e" -> "E"
      [] OTHER   -> c

\* strings.ToLower, character by character
LowerOf(c) ==
    CASE c = "L" -> "l"
      [] c = "A" -> "a"
      [] c = "B" -> "b"
      [] c = "E" -> "e"
      [] OTHER   -> c

ToLower(s) == [i \in 1 .. Len(s) |-> LowerOf(s[i])]

\* strings.Contains
Contains(s, sub) ==
    \E i \in 1 .. Len(s) - Len(sub) + 1 : SubSeq(s, i, i + Len(sub) - 1) = sub

\* variant: the label filter is looked for as it is written
ListInbox_CaseSensitive(qry) ==
    [labelIds |-> IF ~Contains(qry, LabelPrefix) THEN {"INBOX"} ELSE {},
     q        |-> IF TrimSpace(qry) # <<>> THEN qry ELSE <<>>]

\* ListInbox: the label ids and the q parameter of the call
ListInbox(qry) ==
    [labelIds |-> IF ~Contains(ToLower(qry), LabelPrefix) THEN {"INBOX"} ELSE {},
     q        |-> IF TrimSpace(qry) # <<>> THEN qry ELSE <<>>]

\* every way of writing s in upper and lower case
RECURSIVE CaseVariants(_)
CaseVariants(s) ==
    IF s = <<>> THEN {<<>>}
    ELSE {<<c>> \o t : c \in {Head(s), UpperOf(Head(s))},
                        t \in CaseVariants(Tail(s))}

\* the queries: a label filter in any case, or something close to one, or the
\* query of a selected label, with some text before and after
Affixes == UNION {[1 .. n -> {"x", " ", "l"}] : n \in 0 .. MaxAffix}
Middles ==
    CaseVariants(LabelPrefix)
        \cup {<<>>, <<"l", "a", "b", "e", "l">>, <<"l", "a", "b", "e", ":">>,
              <<"a", "b", "e", "l", ":">>, <<"l", "a", "b", "e", "l", " ", ":">>,
              LabelQuery(LabelID)}
Queries == {pre \o mid \o post : pre \in Affixes, mid \in Middles, post \in Affixes}

ListInit ==
    /\ LbInit
    /\ PollIdle
    /\ DevIdle
    /\ StoreIdle
    /\ AppIdle
    /\ lspc = "call"
    /\ lsQuery \in Queries
    /\ lsCall = NoCall

\* c.ListInbox(ctx, 25, q)
ListInboxCall ==
    /\ lspc = "call"
    /\ lspc' = "done"
    /\ lsCall' = ListInbox(lsQuery)
    /\ UNCHANGED lsQuery
    /\ UNCHANGED nonListVars

\* the loopback app, or one call of ListInbox
QueryInit == AppInit \/ ListInit

QueryNext == AppNext \/ ListInboxCall

QuerySpec == QueryInit /\ [][QueryNext]_vars

\* the query has the label filter, in any case
HasLabelFilter(qry) ==
    \E i \in 1 .. Len(qry) - 5 :
        \A j \in 1 .. 6 :
            qry[i + j - 1] \in {LabelPrefix[j], UpperOf(LabelPrefix[j])}

\* C36: ListInbox restricts the call to the label INBOX exactly when its
\* query has no "label:" in any case; enter on a label of the labels screen
\* sets m.query to "label:" followed by the id of the label and starts one
\* inbox fetch with that query, whose call is not restricted to INBOX.
C36_InboxFilterUnlessLabel ==
    /\ [](lspc = "done" =>
            lsCall.labelIds = IF HasLabelFilter(lsQuery) THEN {} ELSE {"INBOX"})
    /\ [][(screen = "screenLabels" /\ keys' # keys /\ appCmds' # appCmds
              /\ screen' = "screenInbox") =>
            /\ query' = LabelPrefix \o LabelID
            /\ \E c \in appCmds' :
                  /\ appCmds' \ appCmds = {c}
                  /\ c.kind = "fetchInbox"
                  /\ c.arg = query'
                  /\ ListInbox(c.arg).labelIds = {}]_vars
    /\ [](\A c \in appCmds : c.kind = "fetchInbox" =>
            (ListInbox(c.arg).labelIds = {"INBOX"} <=> ~HasLabelFilter(c.arg)))

C36_Witness ==
    /\ lsQuery = <<"x", "L", "a", "B", "e", "L", ":", "x">>
    /\ lspc = "done"
    /\ lsCall.labelIds = {}

====
